---- MODULE Spec2Model ----
(***************************************************************************)
(* Scheduling engine of the hndasah backend: dependency validation,        *)
(* critical-path computation, schedule optimisation.  Dates are day        *)
(* numbers; a timedelta is a number of days.                               *)
(***************************************************************************)
EXTENDS Integers, Sequences, FiniteSets, TLC

VARIABLES
    tasks,        \* rows of the tasks table of the project, in created_at order
    deps,         \* rows of the task_dependencies table, in query order
    today,        \* what date.today() returns
    validation,   \* the last DependencyValidationResult, or NoResult
    cpm,          \* the last CPMResult (or the exception of the call), or NoResult
    opt,          \* the last result of an optimizer call, or NoResult
    solver,       \* the object self.solver of the shared AdvancedSchedulingService
    calls,        \* the calls in flight on that service
    conflicts,    \* the last list returned by detect_project_conflicts
    resolution,   \* the last ConflictResolutionResult, or NoResult
    txn,          \* the resolve_conflicts call in flight, conflict by conflict
    utcnow,       \* what datetime.utcnow() returns, in whole seconds
    baselines,    \* the ProjectBaselines returned so far, in call order
    comparison,   \* the outcome of the last baseline comparison, or NoResult
    restored,     \* the outcome of the last restore_task_from_baseline, or NoResult
    evm           \* the last earned-value calculation with its analysis, or NoResult

conflict_vars == <<conflicts, resolution, txn>>

baseline_vars == <<utcnow, baselines, comparison>>

service_vars == <<restored, evm>>

vars == <<tasks, deps, today, validation, cpm, opt, solver, calls,
          conflicts, resolution, txn, utcnow, baselines, comparison, restored, evm>>

(***************************************************************************)
(* Bounds of the model.                                                    *)
(***************************************************************************)
MaxTasks == 3
MaxDeps == 3
MaxCpmDeps == 2
MaxClock == 1
MaxCalls == 2
MaxSolvers == 4
MaxConflictTasks == 3
MaxScheduleDay == 18
MaxBaselineTasks == 1
MaxBaselines == 2
MaxTicks == 3

MaxEvmTasks == 2

MaxValidatedTasks == 2

MaxProgressTasks == 3

\* Identifiers of the task rows, in creation order; DanglingId never names a row.
TaskIds == <<"T1", "T2", "T3", "T4">>
DanglingId == "TX"
AllIds == {TaskIds[i] : i \in 1..Len(TaskIds)} \cup {DanglingId}

\* Day number of a date of January 2024.  NoDate stands for None; every date
\* the model computes lies far above it.
Jan(d) == 100 + d
NoDate == 0

\* What create_task is given: planned start, planned end, planned duration and
\* lag.  2024-01-01 -> 2024-01-05, 2024-01-05 -> 2024-01-10, and a task
\* without planned dates.
TaskInputs ==
    {<<Jan(1), Jan(5), 4, 0>>, <<Jan(5), Jan(10), 5, 0>>,
     <<NoDate, NoDate, 3, 1>>}
LagValues == {0, 1}
FirstDay == Jan(20)

NoResult == [kind |-> "none"]

\* The calls that can be in flight on one service, and a call not yet made.
CallIds == 1..MaxCalls
IdleTxn == [pc |-> "idle", before |-> <<>>, todo |-> <<>>, i |-> 0,
            applied |-> <<>>, unresolved |-> <<>>]

IdleCall == [pc |-> "idle", own |-> 0, used |-> {}, ts |-> <<>>, i |-> 0]

(***************************************************************************)
(* Small helpers over sequences.                                           *)
(***************************************************************************)
Range(s) == {s[i] : i \in 1..Len(s)}

IndexOf(s, x) == CHOOSE i \in 1..Len(s) : s[i] = x /\ \A j \in 1..(i - 1) : s[j] # x

Front(s) == SubSeq(s, 1, Len(s) - 1)

TaskIdsOf(ts) == {ts[i].id : i \in 1..Len(ts)}

TaskById(ts, id) == ts[CHOOSE i \in 1..Len(ts) : ts[i].id = id]

(***************************************************************************)
(* Rows.                                                                   *)
(***************************************************************************)
Task(id, w) ==
    [id |-> id,
     planned_start_date |-> w[1],
     planned_end_date |-> w[2],
     planned_duration_days |-> w[3],
     lag_days |-> w[4],
     is_critical_path |-> FALSE,
     slack_days |-> 0]

TaskDependency(n, p, s, lag) ==
    [id |-> n, predecessor_id |-> p, successor_id |-> s, lag_days |-> lag]

(***************************************************************************)
(* DependencyValidationService                                             *)
(***************************************************************************)

\* A defaultdict(list): the keys in insertion order and the list of each key.
EmptyAdjList == [keys |-> <<>>, at |-> [n \in AllIds |-> <<>>]]

\* adj_list[k]: reading a missing key inserts it.
Touch(keys, k) == IF k \in Range(keys) THEN keys ELSE Append(keys, k)

RECURSIVE BuildAdjList(_, _)
BuildAdjList(ds, adj) ==
    IF ds = <<>> THEN adj
    ELSE LET d == Head(ds)
         IN BuildAdjList(Tail(ds),
                [keys |-> Touch(adj.keys, d.predecessor_id),
                 at |-> [adj.at EXCEPT ![d.predecessor_id] = Append(@, d.successor_id)]])

\* The state of one _detect_cycles_from_adj_list run; exc is the exception
\* that ended it ("" when none).
DfsInit(adj) ==
    [keys |-> adj.keys, visited |-> {}, rec_stack |-> {}, path |-> <<>>,
     cycles |-> <<>>, exc |-> ""]

RECURSIVE dfs(_, _, _)
RECURSIVE dfs_neighbors(_, _, _, _)

dfs(adj, node, st) ==
    dfs_neighbors(adj, node, 1,
        [st EXCEPT !.visited = @ \cup {node},
                   !.rec_stack = @ \cup {node},
                   !.path = Append(@, node),
                   !.keys = Touch(@, node)])

dfs_neighbors(adj, node, i, st) ==
    IF i > Len(adj.at[node])
    THEN [st |-> [st EXCEPT !.path = Front(@), !.rec_stack = @ \ {node}], ret |-> FALSE]
    ELSE LET neighbor == adj.at[node][i]
         IN IF neighbor \notin st.visited
            THEN LET r == dfs(adj, neighbor, st)
                 IN IF r.st.exc # "" \/ r.ret
                    THEN [st |-> r.st, ret |-> r.ret]
                    ELSE dfs_neighbors(adj, node, i + 1, r.st)
            ELSE IF neighbor \in st.rec_stack
            THEN IF neighbor \notin Range(st.path)
                 THEN [st |-> [st EXCEPT !.exc = "ValueError"], ret |-> FALSE]
                 ELSE LET cycle_start == IndexOf(st.path, neighbor)
                          cycle == SubSeq(st.path, cycle_start, Len(st.path)) \o <<neighbor>>
                      IN [st |-> [st EXCEPT !.cycles = Append(@, cycle)], ret |-> TRUE]
            ELSE dfs_neighbors(adj, node, i + 1, st)

\* for node in adj_list: the iterator raises as soon as the dict has grown.
RECURSIVE detect_roots(_, _, _, _)
detect_roots(adj, n0, i, st) ==
    IF st.exc # "" THEN st
    ELSE IF Len(st.keys) # n0 THEN [st EXCEPT !.exc = "RuntimeError"]
    ELSE IF i > n0 THEN st
    ELSE LET node == st.keys[i]
         IN IF node \notin st.visited
            THEN detect_roots(adj, n0, i + 1, dfs(adj, node, [st EXCEPT !.path = <<>>]).st)
            ELSE detect_roots(adj, n0, i + 1, st)

detect_cycles_from_adj_list(adj) ==
    detect_roots(adj, Len(adj.keys), 1, DfsInit(adj))

\* _detect_cycles rebuilds the adjacency list from graph.nodes alone.
detect_cycles(nodes) ==
    detect_cycles_from_adj_list(
        [keys |-> nodes, at |-> [n \in AllIds |-> <<>>]])

\* _check_logical_issues warns about a task with more predecessors than this.
MaxPredecessorsHint == 10

\* _find_longest_path.  memo[n] = 0 stands for "n not in memo".  A node that is
\* entered again while its own call is still active recurses without end:
\* Python ends that with RecursionError.

RECURSIVE calculate_path_length(_, _, _, _)
RECURSIVE path_length_successors(_, _, _, _, _, _)

calculate_path_length(adj, node, memo, active) ==
    IF memo[node] # 0 THEN [len |-> memo[node], memo |-> memo, exc |-> ""]
    ELSE IF node \in active THEN [len |-> 0, memo |-> memo, exc |-> "RecursionError"]
    ELSE IF adj.at[node] = <<>> THEN [len |-> 1, memo |-> memo, exc |-> ""]
    ELSE path_length_successors(adj, node, 1, 1, memo, active \cup {node})

path_length_successors(adj, node, i, max_length, memo, active) ==
    IF i > Len(adj.at[node])
    THEN [len |-> max_length, memo |-> [memo EXCEPT ![node] = max_length], exc |-> ""]
    ELSE LET r == calculate_path_length(adj, adj.at[node][i], memo, active)
         IN IF r.exc # "" THEN r
            ELSE path_length_successors(adj, node, i + 1,
                     IF r.len + 1 > max_length THEN r.len + 1 ELSE max_length,
                     r.memo, active)

\* for node in nodes: the first node with the greatest length is the start node
\* ("" stands for None).
RECURSIVE longest_start(_, _, _, _)
longest_start(adj, nodes, i, acc) ==
    IF acc.exc # "" \/ i > Len(nodes) THEN acc
    ELSE LET r == calculate_path_length(adj, nodes[i], acc.memo, {})
         IN IF r.exc # "" THEN [acc EXCEPT !.exc = r.exc]
            ELSE longest_start(adj, nodes, i + 1,
                     IF r.len > acc.max_length
                     THEN [max_length |-> r.len, start_node |-> nodes[i],
                           memo |-> r.memo, exc |-> ""]
                     ELSE [acc EXCEPT !.memo = r.memo])

\* max(adj_list[current], key=...): the first successor of greatest length.
NextOnPath(adj, current, memo) ==
    LET succs == adj.at[current]
        len(x) == calculate_path_length(adj, x, memo, {}).len
        i == CHOOSE i \in 1..Len(succs) :
                 /\ \A j \in 1..Len(succs) : len(succs[j]) <= len(succs[i])
                 /\ \A j \in 1..(i - 1) : len(succs[j]) < len(succs[i])
    IN succs[i]

RECURSIVE reconstruct_path(_, _, _, _)
reconstruct_path(adj, current, path, memo) ==
    IF adj.at[current] = <<>> THEN path
    ELSE LET next_node == NextOnPath(adj, current, memo)
         IN reconstruct_path(adj, next_node, Append(path, next_node), memo)

find_longest_path(adj, nodes) ==
    LET s == longest_start(adj, nodes, 1,
                 [max_length |-> 0, start_node |-> "",
                  memo |-> [n \in AllIds |-> 0], exc |-> ""])
    IN IF s.exc # "" THEN [path |-> <<>>, exc |-> s.exc]
       ELSE IF s.start_node = "" THEN [path |-> <<>>, exc |-> ""]
       ELSE [path |-> reconstruct_path(adj, s.start_node, <<s.start_node>>, s.memo),
             exc |-> ""]

\* _build_dependency_graph: exc is the exception it raises, "" when it returns.
build_dependency_graph(ts, ds) ==
    LET nodes == [i \in 1..Len(ts) |-> ts[i].id]
        adj == BuildAdjList(ds, EmptyAdjList)
        c == detect_cycles_from_adj_list(adj)
        lp == find_longest_path(adj, nodes)
    IN IF c.exc # "" THEN [nodes |-> nodes, cycles |-> <<>>, longest_path |-> <<>>, exc |-> c.exc]
       ELSE [nodes |-> nodes, cycles |-> c.cycles, longest_path |-> lp.path, exc |-> lp.exc]

Msg(m, ref) == [msg |-> m, ref |-> ref]

InvalidDependency(d, issue) ==
    [dependency_id |-> d.id, predecessor_id |-> d.predecessor_id,
     successor_id |-> d.successor_id, issue |-> issue]

\* The two "orphaned dependency" checks of one dependency row.
OrphanIssues(d, task_ids) ==
    (IF d.predecessor_id \notin task_ids THEN <<"predecessor_task_not_found">> ELSE <<>>)
    \o (IF d.successor_id \notin task_ids THEN <<"successor_task_not_found">> ELSE <<>>)

RECURSIVE OrphanedDependencies(_, _)
OrphanedDependencies(ds, task_ids) ==
    IF ds = <<>> THEN <<>>
    ELSE LET d == Head(ds)
             issues == OrphanIssues(d, task_ids)
         IN [k \in 1..Len(issues) |-> InvalidDependency(d, issues[k])]
            \o OrphanedDependencies(Tail(ds), task_ids)

RECURSIVE SelfDependencies(_)
SelfDependencies(ds) ==
    IF ds = <<>> THEN <<>>
    ELSE (IF Head(ds).predecessor_id = Head(ds).successor_id
          THEN <<InvalidDependency(Head(ds), "self_dependency")>> ELSE <<>>)
         \o SelfDependencies(Tail(ds))

\* One warning for every row whose (predecessor, successor) pair was seen before.
DuplicateWarnings(ds) ==
    LET dup(i) == \E j \in 1..(i - 1) :
                      /\ ds[j].predecessor_id = ds[i].predecessor_id
                      /\ ds[j].successor_id = ds[i].successor_id
        F[i \in 0..Len(ds)] ==
            IF i = 0 THEN <<>>
            ELSE F[i - 1] \o (IF dup(i)
                              THEN <<Msg("duplicate_dependency",
                                         <<ds[i].predecessor_id, ds[i].successor_id>>)>>
                              ELSE <<>>)
    IN F[Len(ds)]

check_logical_issues(ts, ds) ==
    LET count(t) == Cardinality({i \in 1..Len(ds) : ds[i].successor_id = t})
        \* task_dep_count keeps the successors in first-seen order
        succs == LET G[i \in 0..Len(ds)] ==
                         IF i = 0 THEN <<>> ELSE Touch(G[i - 1], ds[i].successor_id)
                 IN G[Len(ds)]
        many == LET H[i \in 0..Len(succs)] ==
                        IF i = 0 THEN <<>>
                        ELSE H[i - 1] \o
                             (IF count(succs[i]) > MaxPredecessorsHint
                                 /\ succs[i] \in TaskIdsOf(ts)
                              THEN <<Msg("too_many_predecessors", <<succs[i]>>)>>
                              ELSE <<>>)
                IN H[Len(succs)]
        late(d) == /\ d.predecessor_id \in TaskIdsOf(ts)
                   /\ d.successor_id \in TaskIdsOf(ts)
                   /\ TaskById(ts, d.predecessor_id).planned_end_date # NoDate
                   /\ TaskById(ts, d.successor_id).planned_start_date # NoDate
                   /\ TaskById(ts, d.predecessor_id).planned_end_date
                        > TaskById(ts, d.successor_id).planned_start_date
        dates == LET K[i \in 0..Len(ds)] ==
                         IF i = 0 THEN <<>>
                         ELSE K[i - 1] \o
                              (IF late(ds[i])
                               THEN <<Msg("date_inconsistency",
                                          <<ds[i].predecessor_id, ds[i].successor_id>>)>>
                               ELSE <<>>)
                 IN K[Len(ds)]
    IN many \o dates

validate_project_dependencies(ts, ds) ==
    LET graph == build_dependency_graph(ts, ds)
        cycles == detect_cycles(graph.nodes).cycles
        task_ids == TaskIdsOf(ts)
        orphaned == OrphanedDependencies(ds, task_ids)
        selfdeps == SelfDependencies(ds)
        invalid == orphaned \o selfdeps
        errors == [k \in 1..Len(cycles) |-> Msg("circular_dependency", cycles[k])]
                  \o [k \in 1..Len(orphaned) |->
                        Msg(orphaned[k].issue,
                            <<IF orphaned[k].issue = "predecessor_task_not_found"
                              THEN orphaned[k].predecessor_id
                              ELSE orphaned[k].successor_id>>)]
                  \o [k \in 1..Len(selfdeps) |->
                        Msg("self_dependency", <<selfdeps[k].predecessor_id>>)]
    IN IF graph.exc # ""
       THEN [kind |-> "validation", is_valid |-> FALSE,
             errors |-> <<Msg("validation_failed", <<graph.exc>>)>>,
             warnings |-> <<>>, circular_references |-> <<>>,
             invalid_dependencies |-> <<>>]
       ELSE [kind |-> "validation",
             is_valid |-> cycles = <<>> /\ invalid = <<>>,
             errors |-> errors,
             warnings |-> DuplicateWarnings(ds) \o check_logical_issues(ts, ds),
             circular_references |-> cycles,
             invalid_dependencies |-> invalid]

(***************************************************************************)
(* The tables, the clock and the validator as a state machine.  A result   *)
(* is kept only while the tables it was computed from are unchanged.       *)
(***************************************************************************)
CreateTask(w) ==
    /\ Len(tasks) < MaxTasks
    /\ tasks' = Append(tasks, Task(TaskIds[Len(tasks) + 1], w))
    /\ validation' = NoResult
    /\ cpm' = NoResult
    /\ opt' = NoResult
    /\ UNCHANGED <<service_vars, deps, today, solver, calls, conflict_vars, baseline_vars>>

CreateDependency(p, s, lag) ==
    /\ Len(deps) < MaxDeps
    /\ deps' = Append(deps, TaskDependency(Len(deps) + 1, p, s, lag))
    /\ validation' = NoResult
    /\ cpm' = NoResult
    /\ opt' = NoResult
    /\ UNCHANGED <<service_vars, tasks, today, solver, calls, conflict_vars, baseline_vars>>

ValidateProjectDependencies ==
    /\ validation' = validate_project_dependencies(tasks, deps)
    /\ UNCHANGED <<service_vars, tasks, deps, today, cpm, opt, solver, calls, conflict_vars, baseline_vars>>

\* What a dependency row may name: the rows that can exist, and a missing one.
TaskDepEndpoints == {TaskIds[i] : i \in 1..MaxValidatedTasks} \cup {DanglingId}

DepEndpoints == {TaskIds[i] : i \in 1..MaxTasks} \cup {DanglingId}

ValidatorInit ==
    /\ tasks = <<>>
    /\ deps = <<>>
    /\ today = FirstDay
    /\ validation = NoResult
    /\ cpm = NoResult
    /\ opt = NoResult
    /\ solver = 1
    /\ calls = [c \in CallIds |-> IdleCall]
    /\ conflicts = <<>>
    /\ resolution = NoResult
    /\ txn = IdleTxn
    /\ utcnow = 0
    /\ baselines = <<>>
    /\ comparison = NoResult
    /\ restored = NoResult
    /\ evm = NoResult

ValidatorNext ==
    \/ \E w \in {<<Jan(1), Jan(5), 4, 0>>} : CreateTask(w)
    \/ \E p \in DepEndpoints, s \in DepEndpoints : CreateDependency(p, s, 0)
    \/ ValidateProjectDependencies

ValidatorSpec == ValidatorInit /\ [][ValidatorNext]_vars

(***************************************************************************)
(* AdvancedSchedulingService: critical path                                *)
(***************************************************************************)
Max(S) == CHOOSE x \in S : \A y \in S : y <= x
Min(S) == CHOOSE x \in S : \A y \in S : x <= y

\* d or alt, for an Optional[date].
DateOr(d, alt) == IF d = NoDate THEN alt ELSE d

HasPlannedDates(t) == t.planned_start_date # NoDate /\ t.planned_end_date # NoDate

\* max(1, (task.planned_end_date - task.planned_start_date).days)
duration_days(t) == Max({1, t.planned_end_date - t.planned_start_date})

\* Upper end of the domain of a start variable of the CPM model.
MaxStartDay == 1000

TaskSchedule(id, es, ef, ls, lf, slack, critical, duration) ==
    [task_id |-> id, earliest_start |-> es, earliest_finish |-> ef,
     latest_start |-> ls, latest_finish |-> lf, slack |-> slack,
     is_critical |-> critical, duration |-> duration]

CPMResult(via, critical_path, total_duration, task_schedules) ==
    [kind |-> "cpm", via |-> via, exc |-> "", critical_path |-> critical_path,
     total_duration |-> total_duration, task_schedules |-> task_schedules]

\* A call that ended with an exception instead of a CPMResult.
CPMRaised(via, exc) ==
    [kind |-> "cpm", via |-> via, exc |-> exc, critical_path |-> <<>>,
     total_duration |-> 0, task_schedules |-> <<>>]

\* The rows whose two ends are both tasks of the list.
InGraph(ts, d) == d.predecessor_id \in TaskIdsOf(ts) /\ d.successor_id \in TaskIdsOf(ts)

\* predecessors[task_id] and successors[task_id], in the order of the rows.
PredecessorsOf(ts, ds, id) ==
    LET keep(d) == InGraph(ts, d) /\ d.successor_id = id
        sel == SelectSeq(ds, keep)
    IN [i \in 1..Len(sel) |-> sel[i].predecessor_id]

SuccessorsOf(ts, ds, id) ==
    LET keep(d) == InGraph(ts, d) /\ d.predecessor_id = id
        sel == SelectSeq(ds, keep)
    IN [i \in 1..Len(sel) |-> sel[i].successor_id]

\* The lag of the first row from pred_id to task_id.
EdgeLag(ds, pred_id, task_id) ==
    LET i == CHOOSE i \in 1..Len(ds) :
                 /\ ds[i].predecessor_id = pred_id /\ ds[i].successor_id = task_id
                 /\ \A j \in 1..(i - 1) :
                       ~(ds[j].predecessor_id = pred_id /\ ds[j].successor_id = task_id)
    IN ds[i].lag_days

\* The search Phase(starts, CHOOSE_FIRST_UNBOUND, ASSIGN_MIN_VALUE) under the
\* constraints succ_start >= pred_end + lag, end = start + duration: the first
\* solution gives every start its least value.  One round raises every start
\* to what its constraints demand; starts that still move after one round per
\* task lie on a cycle of positive length and leave every finite domain.
PropagateStarts(ts, ds, start, lagged) ==
    [id \in TaskIdsOf(ts) |->
        Max({start[id]} \cup
            {start[p] + duration_days(TaskById(ts, p))
                + (IF lagged THEN EdgeLag(ds, p, id) ELSE 0) :
                p \in Range(PredecessorsOf(ts, ds, id))})]

RECURSIVE LeastStarts(_, _, _, _, _, _)
LeastStarts(ts, ds, start, lagged, horizon, rounds) ==
    LET next == PropagateStarts(ts, ds, start, lagged)
    IN IF \E id \in TaskIdsOf(ts) : next[id] > horizon
       THEN [found |-> FALSE, start |-> start]
       ELSE IF next = start THEN [found |-> TRUE, start |-> start]
       ELSE IF rounds = 0 THEN [found |-> FALSE, start |-> start]
       ELSE LeastStarts(ts, ds, next, lagged, horizon, rounds - 1)

NextSolution(ts, ds) ==
    LeastStarts(ts, ds, [id \in TaskIdsOf(ts) |-> 0], TRUE, MaxStartDay, Len(ts))

calculate_slack(ts, ds, start, id) ==
    LET earliest_start == start[id]
        succs == Range(SuccessorsOf(ts, ds, id))
        latest_start ==
            IF succs # {}
            THEN Min({earliest_start,
                      Min({start[x] : x \in succs}) - duration_days(TaskById(ts, id))})
            ELSE earliest_start
    IN Max({0, latest_start - earliest_start})

\* max((s.earliest_finish - s.earliest_start).days for s in task_schedules)
LongestSchedule(schedules) ==
    IF schedules = <<>> THEN 0
    ELSE Max({schedules[i].earliest_finish - schedules[i].earliest_start :
                 i \in 1..Len(schedules)})

CriticalIds(schedules) ==
    LET crit(x) == x.is_critical
        sel == SelectSeq(schedules, crit)
    IN [i \in 1..Len(sel) |-> sel[i].task_id]

\* The try block of calculate_critical_path_ortools, every task having dates.
ortools_cpm(ts, ds) ==
    LET sol == NextSolution(ts, ds)
        project_start == Min({ts[i].planned_start_date : i \in 1..Len(ts)})
        schedule(t) ==
            LET slack == calculate_slack(ts, ds, sol.start, t.id)
                actual_start == project_start + sol.start[t.id]
                actual_end == project_start + sol.start[t.id] + duration_days(t)
            IN TaskSchedule(t.id, actual_start, actual_end, actual_start, actual_end,
                            slack, slack <= 0, duration_days(t))
        schedules == IF sol.found THEN [i \in 1..Len(ts) |-> schedule(ts[i])] ELSE <<>>
    IN CPMResult("ortools", CriticalIds(schedules), LongestSchedule(schedules), schedules)

\* _fallback_cpm_calculation: one task of the loop; exc when the arithmetic on
\* a missing date raises.
fallback_schedule(ts, ds, now, t) ==
    LET preds == PredecessorsOf(ts, ds, t.id)
        pred_ends == {TaskById(ts, p).planned_end_date : p \in Range(preds)}
        earliest_start ==
            IF preds # <<>> THEN Max(pred_ends) + 1
            ELSE DateOr(t.planned_start_date, now)
        earliest_finish == earliest_start + duration_days(t)
    IN IF (preds # <<>> /\ NoDate \in pred_ends) \/ ~HasPlannedDates(t)
       THEN [exc |-> "TypeError", schedule |-> <<>>]
       ELSE [exc |-> "",
             schedule |-> <<TaskSchedule(t.id, earliest_start, earliest_finish,
                                         earliest_start, earliest_finish, 0, TRUE,
                                         earliest_finish - earliest_start)>>]

RECURSIVE fallback_loop(_, _, _, _, _)
fallback_loop(ts, ds, now, i, schedules) ==
    IF i > Len(ts) THEN [exc |-> "", schedules |-> schedules]
    ELSE LET r == fallback_schedule(ts, ds, now, ts[i])
         IN IF r.exc # "" THEN [exc |-> r.exc, schedules |-> schedules]
            ELSE fallback_loop(ts, ds, now, i + 1, schedules \o r.schedule)

fallback_cpm_calculation(ts, ds, now) ==
    LET r == fallback_loop(ts, ds, now, 1, <<>>)
    IN IF r.exc # "" THEN CPMRaised("fallback", r.exc)
       ELSE CPMResult("fallback",
                      [i \in 1..Len(r.schedules) |-> r.schedules[i].task_id],
                      LongestSchedule(r.schedules), r.schedules)

\* calculate_critical_path_ortools.  library_ok: the calls into the solver
\* library return; when one raises, or a task has no planned date, the except
\* branch runs the fallback.
calculate_critical_path_ortools(ts, ds, now, library_ok) ==
    IF library_ok /\ \A i \in 1..Len(ts) : HasPlannedDates(ts[i])
    THEN ortools_cpm(ts, ds)
    ELSE fallback_cpm_calculation(ts, ds, now)

(***************************************************************************)
(* TaskService: forward and backward pass; the cpm endpoint of the router  *)
(***************************************************************************)
\* A node of the graph of _build_dependency_graph before the passes.
EmptyNode ==
    [earliest_start |-> NoDate, earliest_finish |-> NoDate,
     latest_start |-> NoDate, latest_finish |-> NoDate, slack |-> 0]

\* _forward_pass: the nodes are visited in the order of the task list.
RECURSIVE forward_pass(_, _, _, _, _)
forward_pass(ts, ds, now, i, graph) ==
    IF i > Len(ts) THEN graph
    ELSE LET task == ts[i]
             preds == Range(PredecessorsOf(ts, ds, task.id))
             earliest_start ==
                 IF preds = {} THEN DateOr(task.planned_start_date, now)
                 ELSE Max({DateOr(graph[p].earliest_finish, now) : p \in preds})
                      + task.lag_days
             earliest_finish == earliest_start + task.planned_duration_days
         IN forward_pass(ts, ds, now, i + 1,
                [graph EXCEPT ![task.id].earliest_start = earliest_start,
                              ![task.id].earliest_finish = earliest_finish])

\* _backward_pass: again in the order of the task list.
RECURSIVE backward_pass(_, _, _, _, _)
backward_pass(ts, ds, project_end, i, graph) ==
    IF i > Len(ts) THEN graph
    ELSE LET task == ts[i]
             succs == Range(SuccessorsOf(ts, ds, task.id))
             latest_finish ==
                 IF succs = {} THEN project_end
                 ELSE Min({DateOr(graph[x].latest_start, project_end) : x \in succs})
                      - task.lag_days
             latest_start == latest_finish - task.planned_duration_days
         IN backward_pass(ts, ds, project_end, i + 1,
                [graph EXCEPT ![task.id].latest_finish = latest_finish,
                              ![task.id].latest_start = latest_start,
                              ![task.id].slack = latest_start - graph[task.id].earliest_start])

\* _calculate_project_duration
calculate_project_duration(schedules) ==
    IF schedules = <<>> THEN 0
    ELSE Max({schedules[i].earliest_finish : i \in 1..Len(schedules)})
         - Min({schedules[i].earliest_start : i \in 1..Len(schedules)})

\* The two passes, _identify_critical_path and _calculate_project_duration
\* over one graph; a schedule is read from the node as the backward pass
\* leaves it.
forward_backward_cpm(ts, ds, now) ==
    LET g0 == [id \in TaskIdsOf(ts) |-> EmptyNode]
        g1 == forward_pass(ts, ds, now, 1, g0)
        project_end == Max({g1[id].earliest_finish : id \in TaskIdsOf(ts)})
        g2 == backward_pass(ts, ds, project_end, 1, g1)
        schedules ==
            [i \in 1..Len(ts) |->
                LET n == g2[ts[i].id]
                IN TaskSchedule(ts[i].id, n.earliest_start, n.earliest_finish,
                                n.latest_start, n.latest_finish, n.slack,
                                n.slack <= 0, ts[i].planned_duration_days)]
    IN CPMResult("passes", CriticalIds(schedules),
                 calculate_project_duration(schedules), schedules)

\* perform_cpm_calculation of the router.
perform_cpm_schedule(ts, ds, now, task) ==
    LET preds == Range(PredecessorsOf(ts, ds, task.id))
        earliest_start ==
            IF preds = {} THEN DateOr(task.planned_start_date, now)
            ELSE Max({DateOr(TaskById(ts, p).planned_end_date, now) : p \in preds})
                 + task.lag_days
        earliest_finish == earliest_start + task.planned_duration_days
    IN TaskSchedule(task.id, earliest_start, earliest_finish, earliest_start,
                    earliest_finish, 0,
                    SuccessorsOf(ts, ds, task.id) = <<>> \/ task.planned_duration_days = 0,
                    task.planned_duration_days)

perform_cpm_calculation(ts, ds, now) ==
    LET schedules == [i \in 1..Len(ts) |-> perform_cpm_schedule(ts, ds, now, ts[i])]
        total_duration ==
            Max({0} \cup {schedules[i].earliest_finish
                            - DateOr(ts[i].planned_start_date, now) : i \in 1..Len(ts)})
    IN CPMResult("router", CriticalIds(schedules), total_duration, schedules)

\* _update_tasks_with_cpm_results: is_critical_path and slack_days of the rows.
update_tasks_with_cpm_results(ts, schedules) ==
    [i \in 1..Len(ts) |->
        IF \E k \in 1..Len(schedules) : schedules[k].task_id = ts[i].id
        THEN LET k == CHOOSE k \in 1..Len(schedules) :
                          /\ schedules[k].task_id = ts[i].id
                          /\ \A j \in (k + 1)..Len(schedules) : schedules[j].task_id # ts[i].id
             IN [ts[i] EXCEPT !.is_critical_path = schedules[k].is_critical,
                              !.slack_days = schedules[k].slack]
        ELSE ts[i]]

\* TaskService.calculate_critical_path
CalculateCriticalPath(library_ok) ==
    LET r == IF tasks = <<>> THEN CPMRaised("service", "ValueError")
             ELSE calculate_critical_path_ortools(tasks, deps, today, library_ok)
    IN /\ cpm' = r
       /\ tasks' = IF r.exc = "" THEN update_tasks_with_cpm_results(tasks, r.task_schedules)
                   ELSE tasks
       /\ UNCHANGED <<service_vars, deps, today, validation, opt, solver, calls, conflict_vars, baseline_vars>>

\* The forward/backward pass of TaskService over the project's rows.
ForwardBackwardPass ==
    /\ tasks # <<>>
    /\ cpm' = forward_backward_cpm(tasks, deps, today)
    /\ UNCHANGED <<service_vars, tasks, deps, today, validation, opt, solver, calls, conflict_vars, baseline_vars>>

\* POST /projects/{id}/tasks/cpm of the router.
CalculateCpmEndpoint ==
    LET r == IF tasks = <<>> THEN CPMRaised("router", "HTTPException")
             ELSE perform_cpm_calculation(tasks, deps, today)
    IN /\ cpm' = r
       /\ tasks' = IF r.exc = "" THEN update_tasks_with_cpm_results(tasks, r.task_schedules)
                   ELSE tasks
       /\ UNCHANGED <<service_vars, deps, today, validation, opt, solver, calls, conflict_vars, baseline_vars>>

\* A day passes.
AdvanceClock ==
    /\ today < FirstDay + MaxClock
    /\ today' = today + 1
    /\ UNCHANGED <<service_vars, tasks, deps, validation, cpm, opt, solver, calls, conflict_vars, baseline_vars>>

CpmInit == ValidatorInit

\* The rows that exist can be linked; the tables keep the foreign keys.
CreateCpmDependency ==
    /\ Len(deps) < MaxCpmDeps
    /\ \E p \in TaskIdsOf(tasks), s \in TaskIdsOf(tasks), lag \in LagValues :
          p # s /\ CreateDependency(p, s, lag)

CpmNext ==
    \/ \E w \in TaskInputs : CreateTask(w)
    \/ CreateCpmDependency
    \/ \E library_ok \in BOOLEAN : CalculateCriticalPath(library_ok)
    \/ ForwardBackwardPass
    \/ CalculateCpmEndpoint
    \/ AdvanceClock

CpmSpec == CpmInit /\ [][CpmNext]_vars

(***************************************************************************)
(* AdvancedSchedulingService: resource leveling and schedule optimisation  *)
(***************************************************************************)
\* Upper end of the domain of a start variable of the two optimizers.
MaxLevelingDay == 365

\* parameters.get('max_days', 30)
DefaultMaxDays == 30

\* getattr(task, 'required_resources', {}): no row carries the attribute.
\* A dict is a set of <<key, value>> pairs.
required_resources(t) == {}

UsesResource(t, resource_type) == \E kv \in required_resources(t) : kv[1] = resource_type

TaskConstraint(type, task_id, date, max_days, resource_type, max_units) ==
    [constraint_type |-> type, task_id |-> task_id, date |-> date, max_days |-> max_days,
     resource_type |-> resource_type, max_units |-> max_units]

RECURSIVE SumOver(_, _)
SumOver(f, D) ==
    IF D = {} THEN 0
    ELSE LET x == CHOOSE x \in D : TRUE IN f[x] + SumOver(f, D \ {x})

ResourceLevelingResult(request, optimized_schedule) ==
    [kind |-> "leveling", request |-> request, optimized_schedule |-> optimized_schedule,
     total_delays |-> SumOver([i \in 1..Len(optimized_schedule) |->
                                  optimized_schedule[i].delay_days],
                              1..Len(optimized_schedule))]

\* optimize_resource_leveling.  No task uses a resource, so no cumulative
\* constraint is added; with a session every dependency row whose two ends are
\* scheduled gives curr_start >= pred_end; the first solution of the search
\* gives every start its least value.  Any exception gives the empty result.
optimize_resource_leveling(ts, ds, resource_constraints, db_session, library_ok) ==
    LET request == [resource_constraints |-> resource_constraints, db_session |-> db_session]
        cumulative == {kv \in resource_constraints :
                          \E i \in 1..Len(ts) : UsesResource(ts[i], kv[1])}
        rows == IF db_session THEN ds ELSE <<>>
        sol == LeastStarts(ts, rows, [id \in TaskIdsOf(ts) |-> 0], FALSE,
                           MaxLevelingDay, Len(ts))
        base_date == Min({ts[i].planned_start_date : i \in 1..Len(ts)})
        entry(t) ==
            [task_id |-> t.id, original_start |-> t.planned_start_date,
             original_end |-> t.planned_end_date,
             optimized_start |-> base_date + sol.start[t.id],
             optimized_end |-> base_date + sol.start[t.id] + duration_days(t),
             delay_days |-> base_date + sol.start[t.id] - t.planned_start_date]
    IN IF ~library_ok \/ \E i \in 1..Len(ts) : ~HasPlannedDates(ts[i])
       THEN ResourceLevelingResult(request, <<>>)
       ELSE IF cumulative = {} /\ sol.found
       THEN ResourceLevelingResult(request, [i \in 1..Len(ts) |-> entry(ts[i])])
       ELSE ResourceLevelingResult(request, <<>>)

SchedulingOptimizationResult(request, optimized_tasks, objective_value, constraints_applied) ==
    [kind |-> "optimization", request |-> request, optimized_tasks |-> optimized_tasks,
     objective_value |-> objective_value, optimization_goal |-> request.optimization_goal,
     constraints_applied |-> constraints_applied,
     solution_found |-> Len(optimized_tasks) > 0]

\* _apply_constraint: what the constraints of the list demand of one task.
\* The day of a date constraint is counted from date.today().
AppliedTo(constraints, type, id) ==
    {k \in 1..Len(constraints) :
        constraints[k].constraint_type = type /\ constraints[k].task_id = id}

StartFloor(constraints, now, id) ==
    Max({0} \cup {constraints[k].date - now : k \in AppliedTo(constraints, "start_after", id)})

EndCeiling(constraints, now, t) ==
    Min({MaxLevelingDay + duration_days(t)} \cup
        {constraints[k].date - now : k \in AppliedTo(constraints, "finish_before", t.id)})

WithinMaxDuration(constraints, t) ==
    \A k \in AppliedTo(constraints, "max_duration", t.id) :
        duration_days(t) <= constraints[k].max_days

\* optimize_schedule_with_constraints.  The model holds the variables of the
\* tasks and the constraints of the list, and nothing of the dependency rows;
\* the first solution gives every start its least value.
optimize_schedule_with_constraints(ts, constraints, optimization_goal, now, library_ok) ==
    LET request == [constraints |-> constraints, optimization_goal |-> optimization_goal]
        cumulative == {k \in 1..Len(constraints) :
                          /\ constraints[k].constraint_type = "resource_limit"
                          /\ \E i \in 1..Len(ts) :
                                UsesResource(ts[i], constraints[k].resource_type)}
        start == [id \in TaskIdsOf(ts) |-> StartFloor(constraints, now, id)]
        feasible ==
            \A i \in 1..Len(ts) :
                /\ start[ts[i].id] <= MaxLevelingDay
                /\ start[ts[i].id] + duration_days(ts[i]) <= EndCeiling(constraints, now, ts[i])
                /\ WithinMaxDuration(constraints, ts[i])
        base_date == Min({ts[i].planned_start_date : i \in 1..Len(ts)})
        entry(t) ==
            LET optimized_start == base_date + start[t.id]
                optimized_end == base_date + start[t.id] + duration_days(t)
            IN [task_id |-> t.id, original_start |-> t.planned_start_date,
                original_end |-> t.planned_end_date,
                optimized_start |-> optimized_start, optimized_end |-> optimized_end,
                changes |-> [start_delay |-> optimized_start - t.planned_start_date,
                             end_delay |-> optimized_end - t.planned_end_date]]
        objective_value ==
            IF optimization_goal = "minimize_duration"
            THEN Max({start[ts[i].id] + duration_days(ts[i]) : i \in 1..Len(ts)})
            ELSE 0
    IN IF ~library_ok \/ ts = <<>> \/ \E i \in 1..Len(ts) : ~HasPlannedDates(ts[i])
       THEN SchedulingOptimizationResult(request, <<>>, 0, 0)
       ELSE IF cumulative = {} /\ feasible
       THEN SchedulingOptimizationResult(request, [i \in 1..Len(ts) |-> entry(ts[i])],
                                         objective_value, Len(constraints))
       ELSE SchedulingOptimizationResult(request, <<>>, 0, Len(constraints))

\* The arguments of the optimizer calls.
ResourceConstraintInputs == {{}, {<<"crew", 1>>}}

ConstraintInputs ==
    {TaskConstraint("start_after", "T1", FirstDay + 3, DefaultMaxDays, "", 1),
     TaskConstraint("finish_before", "T1", Jan(12), DefaultMaxDays, "", 1),
     TaskConstraint("max_duration", "T1", NoDate, 3, "", 1),
     TaskConstraint("resource_limit", "", NoDate, DefaultMaxDays, "crew", 1)}

ConstraintLists == {<<>>} \cup {<<c>> : c \in ConstraintInputs}

GoalInputs == {"minimize_duration"}

\* A call of optimize_resource_leveling that runs alone on its service.
OptimizeResourceLeveling(resource_constraints, db_session, library_ok) ==
    /\ opt' = optimize_resource_leveling(tasks, deps, resource_constraints,
                                         db_session, library_ok)
    /\ UNCHANGED <<service_vars, tasks, deps, today, validation, cpm, solver, calls, conflict_vars, baseline_vars>>

\* A call of optimize_schedule_with_constraints.
OptimizeScheduleWithConstraints(constraints, optimization_goal, library_ok) ==
    /\ opt' = optimize_schedule_with_constraints(tasks, constraints, optimization_goal,
                                                 today, library_ok)
    /\ UNCHANGED <<service_vars, tasks, deps, today, validation, cpm, solver, calls, conflict_vars, baseline_vars>>

OptimizerInit == ValidatorInit

OptimizerNext ==
    \/ \E w \in TaskInputs : CreateTask(w)
    \/ CreateCpmDependency
    \/ AdvanceClock
    \/ \E rc \in ResourceConstraintInputs, db_session \in BOOLEAN, library_ok \in BOOLEAN :
          OptimizeResourceLeveling(rc, db_session, library_ok)
    \/ \E cs \in ConstraintLists, goal \in GoalInputs, library_ok \in BOOLEAN :
          OptimizeScheduleWithConstraints(cs, goal, library_ok)

OptimizerSpec == OptimizerInit /\ [][OptimizerNext]_vars

(***************************************************************************)
(* Calls in flight on one AdvancedSchedulingService.  A call runs from one *)
(* suspension of its coroutine to the next in one step; the only await     *)
(* that suspends is the query of _get_task_predecessors.                   *)
(***************************************************************************)
\* _reset_solver, then a method that never suspends:
\* calculate_critical_path_ortools, optimize_schedule_with_constraints, or
\* optimize_resource_leveling without a session.
CallWithoutSuspension(c) ==
    /\ calls[c].pc = "idle"
    /\ solver < MaxSolvers
    /\ solver' = solver + 1
    /\ calls' = [calls EXCEPT ![c] = [pc |-> "done", own |-> solver + 1,
                                      used |-> {solver + 1}, ts |-> tasks, i |-> 0]]
    /\ UNCHANGED <<service_vars, tasks, deps, today, validation, cpm, opt, conflict_vars, baseline_vars>>

\* optimize_resource_leveling with a session: _reset_solver, the variables of
\* the tasks, then the first query for predecessors.
BeginLeveling(c) ==
    /\ calls[c].pc = "idle"
    /\ solver < MaxSolvers
    /\ solver' = solver + 1
    /\ calls' = [calls EXCEPT ![c] =
          [pc |-> IF tasks = <<>> THEN "done" ELSE "awaiting", own |-> solver + 1,
           used |-> {solver + 1}, ts |-> tasks, i |-> IF tasks = <<>> THEN 0 ELSE 1]]
    /\ UNCHANGED <<service_vars, tasks, deps, today, validation, cpm, opt, conflict_vars, baseline_vars>>

\* The query returns: the constraints of task i go to self.solver; after the
\* last task the search runs on self.solver.
ResumeLeveling(c) ==
    LET call == calls[c]
        preds == PredecessorsOf(call.ts, deps, call.ts[call.i].id)
        last == call.i = Len(call.ts)
        touched == IF preds # <<>> \/ last THEN {solver} ELSE {}
    IN /\ call.pc = "awaiting"
       /\ calls' = [calls EXCEPT ![c].used = call.used \cup touched,
                                 ![c].i = IF last THEN call.i ELSE call.i + 1,
                                 ![c].pc = IF last THEN "done" ELSE "awaiting"]
       /\ UNCHANGED <<service_vars, tasks, deps, today, validation, cpm, opt, solver, conflict_vars, baseline_vars>>

\* The caller has its result.
Return(c) ==
    /\ calls[c].pc = "done"
    /\ calls' = [calls EXCEPT ![c] = IdleCall]
    /\ UNCHANGED <<service_vars, tasks, deps, today, validation, cpm, opt, solver, conflict_vars, baseline_vars>>

SolverInit == ValidatorInit

SolverNext ==
    \/ \E w \in {<<Jan(1), Jan(5), 4, 0>>} : CreateTask(w)
    \/ \E p \in TaskIdsOf(tasks), s \in TaskIdsOf(tasks) :
          p # s /\ Len(deps) < MaxCpmDeps /\ CreateDependency(p, s, 0)
    \/ \E c \in CallIds : CallWithoutSuspension(c)
    \/ \E c \in CallIds : BeginLeveling(c)
    \/ \E c \in CallIds : ResumeLeveling(c)
    \/ \E c \in CallIds : Return(c)

SolverSpec == SolverInit /\ [][SolverNext]_vars

(***************************************************************************)
(* ConflictResolutionService: detection.                                   *)
(***************************************************************************)
NoUser == ""

\* A row of the tasks table with the columns the conflict service reads.
\* estimated_hours is in whole hours; 0 stands for None (both are falsy).
TaskRow(id, w, predecessor_tasks) ==
    [id |-> id,
     assigned_to |-> w[1],
     planned_start_date |-> w[2],
     planned_end_date |-> w[3],
     planned_duration_days |-> w[4],
     estimated_hours |-> w[5],
     lag_days |-> w[6],
     predecessor_tasks |-> predecessor_tasks]

\* task.project.end_date of the one project.
ProjectEndDate == Jan(14)

\* SchedulingConflict; description carries the number the message is built
\* from (overlap days, violation days, hours).
SchedulingConflict(conflict_type, task_ids, description, severity) ==
    [conflict_type |-> conflict_type, task_ids |-> task_ids,
     description |-> description, severity |-> severity]

\* The subsequence of s whose elements satisfy keep[x].
RECURSIVE SelectRows(_, _)
SelectRows(s, keep) ==
    IF s = <<>> THEN <<>>
    ELSE IF keep[Head(s)] THEN <<Head(s)>> \o SelectRows(Tail(s), keep)
    ELSE SelectRows(Tail(s), keep)

\* The keys of a dict filled in the order of s, in insertion order.
RECURSIVE KeysInOrder(_, _)
KeysInOrder(s, seen) ==
    IF s = <<>> THEN <<>>
    ELSE IF Head(s) \in seen THEN KeysInOrder(Tail(s), seen)
    ELSE <<Head(s)>> \o KeysInOrder(Tail(s), seen \cup {Head(s)})

\* list.sort(key=lambda t: t.planned_start_date): stable.
RECURSIVE SortByStart(_)
SortByStart(s) ==
    IF s = <<>> THEN <<>>
    ELSE LET rest == SortByStart(Front(s))
             x == s[Len(s)]
             before == {i \in 1..Len(rest) :
                           rest[i].planned_start_date <= x.planned_start_date}
             k == IF before = {} THEN 0 ELSE Max(before)
         IN SubSeq(rest, 1, k) \o <<x>> \o SubSeq(rest, k + 1, Len(rest))

\* The concatenation of the sequences f[1], ..., f[n].
RECURSIVE Concat(_, _)
Concat(f, n) == IF n = 0 THEN <<>> ELSE Concat(f, n - 1) \o f[n]

\* The overlap conflicts of one assignee: neighbours in start order only.
OverlapsOf(sorted) ==
    Concat([i \in 1..(Len(sorted) - 1) |->
               LET current == sorted[i]
                   next_task == sorted[i + 1]
                   overlap_days == current.planned_end_date - next_task.planned_start_date
               IN IF current.planned_end_date > next_task.planned_start_date
                  THEN <<SchedulingConflict("resource_overlap",
                                            <<current.id, next_task.id>>, overlap_days,
                                            IF overlap_days <= 3 THEN "medium" ELSE "high")>>
                  ELSE <<>>],
           IF sorted = <<>> THEN 0 ELSE Len(sorted) - 1)

detect_date_conflicts(ts) ==
    LET dated == SelectRows(ts, [t \in Range(ts) |->
                     t.assigned_to # NoUser /\ HasPlannedDates(t)])
        users == KeysInOrder([i \in 1..Len(dated) |-> dated[i].assigned_to], {})
        user_tasks(u) == SelectRows(dated, [t \in Range(dated) |-> t.assigned_to = u])
        overlaps == Concat([k \in 1..Len(users) |->
                               OverlapsOf(SortByStart(user_tasks(users[k])))],
                           Len(users))
        deadlines == Concat([i \in 1..Len(ts) |->
                               IF /\ ts[i].planned_end_date # NoDate
                                  /\ ts[i].planned_end_date > ProjectEndDate
                               THEN <<SchedulingConflict("project_deadline_violation",
                                          <<ts[i].id>>,
                                          ts[i].planned_end_date - ProjectEndDate, "high")>>
                               ELSE <<>>],
                           Len(ts))
    IN overlaps \o deadlines

MonthlyCapacity == 160

detect_resource_conflicts(ts) ==
    LET loaded == SelectRows(ts, [t \in Range(ts) |->
                      t.assigned_to # NoUser /\ t.estimated_hours # 0])
        users == KeysInOrder([i \in 1..Len(loaded) |-> loaded[i].assigned_to], {})
        hours(u) == SumOver([i \in 1..Len(loaded) |->
                                IF loaded[i].assigned_to = u
                                THEN loaded[i].estimated_hours ELSE 0],
                            1..Len(loaded))
    IN Concat([k \in 1..Len(users) |->
                  LET h == hours(users[k])
                  IN IF h > MonthlyCapacity
                     THEN <<SchedulingConflict("resource_overallocation", <<>>, h,
                                \* overload_percentage > 50
                                IF (h - MonthlyCapacity) * 100 > 50 * MonthlyCapacity
                                THEN "high" ELSE "medium")>>
                     ELSE <<>>],
              Len(users))

detect_dependency_conflicts(ts) ==
    Concat([i \in 1..Len(ts) |->
               LET task == ts[i]
                   preds == task.predecessor_tasks
               IN Concat([k \in 1..Len(preds) |->
                             IF preds[k] \in TaskIdsOf(ts)
                             THEN LET predecessor == TaskById(ts, preds[k])
                                  IN IF /\ predecessor.planned_end_date # NoDate
                                        /\ task.planned_start_date # NoDate
                                        /\ predecessor.planned_end_date
                                               > task.planned_start_date
                                     THEN <<SchedulingConflict("dependency_violation",
                                                <<predecessor.id, task.id>>,
                                                predecessor.planned_end_date
                                                    - task.planned_start_date,
                                                "high")>>
                                     ELSE <<>>
                             ELSE <<>>],
                         Len(preds))],
           Len(ts))

HoursPerDay == 8

detect_capacity_conflicts(ts) ==
    Concat([i \in 1..Len(ts) |->
               IF /\ ts[i].planned_duration_days # 0
                  /\ ts[i].estimated_hours # 0
                  /\ ts[i].estimated_hours > ts[i].planned_duration_days * HoursPerDay
               THEN <<SchedulingConflict("capacity_violation", <<ts[i].id>>,
                          ts[i].estimated_hours, "medium")>>
               ELSE <<>>],
           Len(ts))

\* detect_project_conflicts, with a session that answers the task query.
detect_project_conflicts(ts) ==
    IF ts = <<>> THEN <<>>
    ELSE detect_date_conflicts(ts) \o detect_resource_conflicts(ts)
         \o detect_dependency_conflicts(ts) \o detect_capacity_conflicts(ts)

(***************************************************************************)
(* ConflictResolutionService: resolution.                                  *)
(***************************************************************************)
\* None, returned by a resolver that applies nothing.
NoResolution == [resolution_type |-> "none"]

NotResolved(ts) == [tasks |-> ts, applied |-> NoResolution]

\* ts with the row of the given id replaced by row.
WithRow(ts, id, row) == [i \in 1..Len(ts) |-> IF ts[i].id = id THEN row ELSE ts[i]]

\* d shifted by n days, None staying None.
ShiftDate(d, n) == IF d = NoDate THEN NoDate ELSE d + n

\* A resolver that delays the start of task2 by the overlap only and leaves its
\* end where it was: what C13 has to tell from the code's resolver.
resolve_resource_overlap_by_overlap(ts, conflict) ==
    IF Len(conflict.task_ids) # 2 THEN NotResolved(ts)
    ELSE IF ~ ({conflict.task_ids[1], conflict.task_ids[2]} \subseteq TaskIdsOf(ts))
    THEN NotResolved(ts)
    ELSE LET task1 == TaskById(ts, conflict.task_ids[1])
             task2 == TaskById(ts, conflict.task_ids[2])
             delay_days == task1.planned_end_date - task2.planned_start_date
             moved == [task2 EXCEPT
                          !.planned_start_date = task2.planned_start_date + delay_days]
         IN IF /\ task1.planned_end_date # NoDate
               /\ task2.planned_start_date # NoDate
               /\ delay_days > 0
            THEN [tasks |-> WithRow(ts, task2.id, moved),
                  applied |-> [conflict_type |-> "resource_overlap",
                               resolution_type |-> "delay_task",
                               affected_tasks |-> <<task2.id>>,
                               changes |-> [planned_start_date |-> moved.planned_start_date,
                                            planned_end_date |-> moved.planned_end_date,
                                            delay_days |-> delay_days]]]
            ELSE NotResolved(ts)

\* _resolve_resource_overlap: task2 is delayed past task1 and committed.
resolve_resource_overlap(ts, conflict) ==
    IF Len(conflict.task_ids) # 2 THEN NotResolved(ts)
    ELSE IF ~ ({conflict.task_ids[1], conflict.task_ids[2]} \subseteq TaskIdsOf(ts))
    THEN NotResolved(ts)
    ELSE LET task1 == TaskById(ts, conflict.task_ids[1])
             task2 == TaskById(ts, conflict.task_ids[2])
             delay_days == task1.planned_end_date - task2.planned_start_date + 1
             moved == [task2 EXCEPT
                          !.planned_start_date = task2.planned_start_date + delay_days,
                          !.planned_end_date = ShiftDate(task2.planned_end_date, delay_days)]
         IN IF /\ task1.planned_end_date # NoDate
               /\ task2.planned_start_date # NoDate
               /\ delay_days > 0
            THEN [tasks |-> WithRow(ts, task2.id, moved),
                  applied |-> [conflict_type |-> "resource_overlap",
                               resolution_type |-> "delay_task",
                               affected_tasks |-> <<task2.id>>,
                               changes |-> [planned_start_date |-> moved.planned_start_date,
                                            planned_end_date |-> moved.planned_end_date,
                                            delay_days |-> delay_days]]]
            ELSE NotResolved(ts)

\* A resolution that delays the successor and stretches it by the delay.
resolve_dependency_violation_stretching(ts, conflict) ==
    IF Len(conflict.task_ids) # 2 THEN NotResolved(ts)
    ELSE IF ~ ({conflict.task_ids[1], conflict.task_ids[2]} \subseteq TaskIdsOf(ts))
    THEN NotResolved(ts)
    ELSE LET pred_task == TaskById(ts, conflict.task_ids[1])
             succ_task == TaskById(ts, conflict.task_ids[2])
             required_delay == pred_task.planned_end_date - succ_task.planned_start_date + 1
             moved == [succ_task EXCEPT
                          !.planned_start_date = succ_task.planned_start_date + required_delay,
                          !.planned_end_date =
                              ShiftDate(succ_task.planned_end_date, 2 * required_delay),
                          !.planned_duration_days = @ + required_delay]
         IN IF /\ pred_task.planned_end_date # NoDate
               /\ succ_task.planned_start_date # NoDate
               /\ required_delay > 0
            THEN [tasks |-> WithRow(ts, succ_task.id, moved),
                  applied |-> [conflict_type |-> "dependency_violation",
                               resolution_type |-> "delay_successor",
                               affected_tasks |-> <<succ_task.id>>,
                               changes |-> [planned_start_date |-> moved.planned_start_date,
                                            planned_end_date |-> moved.planned_end_date,
                                            delay_days |-> required_delay]]]
            ELSE NotResolved(ts)

\* _resolve_dependency_violation: the successor is delayed past the predecessor.
resolve_dependency_violation(ts, conflict) ==
    IF Len(conflict.task_ids) # 2 THEN NotResolved(ts)
    ELSE IF ~ ({conflict.task_ids[1], conflict.task_ids[2]} \subseteq TaskIdsOf(ts))
    THEN NotResolved(ts)
    ELSE LET pred_task == TaskById(ts, conflict.task_ids[1])
             succ_task == TaskById(ts, conflict.task_ids[2])
             required_delay == pred_task.planned_end_date - succ_task.planned_start_date + 1
             moved == [succ_task EXCEPT
                          !.planned_start_date = succ_task.planned_start_date + required_delay,
                          !.planned_end_date =
                              ShiftDate(succ_task.planned_end_date, required_delay)]
         IN IF /\ pred_task.planned_end_date # NoDate
               /\ succ_task.planned_start_date # NoDate
               /\ required_delay > 0
            THEN [tasks |-> WithRow(ts, succ_task.id, moved),
                  applied |-> [conflict_type |-> "dependency_violation",
                               resolution_type |-> "delay_successor",
                               affected_tasks |-> <<succ_task.id>>,
                               changes |-> [planned_start_date |-> moved.planned_start_date,
                                            planned_end_date |-> moved.planned_end_date,
                                            delay_days |-> required_delay]]]
            ELSE NotResolved(ts)

\* int(float(task.estimated_hours) / 8) + 1
required_duration(estimated_hours) == (estimated_hours \div HoursPerDay) + 1

\* _resolve_capacity_violation: the duration is extended and committed.
resolve_capacity_violation(ts, conflict) ==
    IF Len(conflict.task_ids) # 1 THEN NotResolved(ts)
    ELSE IF conflict.task_ids[1] \notin TaskIdsOf(ts) THEN NotResolved(ts)
    ELSE LET task == TaskById(ts, conflict.task_ids[1])
             required == required_duration(task.estimated_hours)
             extended == [task EXCEPT
                             !.planned_duration_days = required,
                             !.planned_end_date =
                                 IF task.planned_start_date # NoDate
                                 THEN task.planned_start_date + required
                                 ELSE task.planned_end_date]
         IN IF /\ task.estimated_hours # 0
               /\ task.planned_duration_days # 0
               /\ required > task.planned_duration_days
            THEN [tasks |-> WithRow(ts, task.id, extended),
                  applied |-> [conflict_type |-> "capacity_violation",
                               resolution_type |-> "extend_duration",
                               affected_tasks |-> <<task.id>>,
                               changes |-> [planned_duration_days |-> required,
                                            planned_end_date |-> extended.planned_end_date,
                                            old_duration |-> task.planned_duration_days]]]
            ELSE NotResolved(ts)

\* A dispatcher that resolves under every strategy: what C14 has to tell from
\* the code's.
resolve_single_conflict_any_strategy(ts, conflict, strategy, db_session) ==
    IF ~ db_session THEN NotResolved(ts)
    ELSE IF conflict.conflict_type = "resource_overlap"
    THEN resolve_resource_overlap(ts, conflict)
    ELSE IF conflict.conflict_type = "dependency_violation"
    THEN resolve_dependency_violation(ts, conflict)
    ELSE IF conflict.conflict_type = "capacity_violation"
    THEN resolve_capacity_violation(ts, conflict)
    ELSE NotResolved(ts)

\* _resolve_single_conflict: without a session the resolver's query raises,
\* which is caught and answered with None.
resolve_single_conflict(ts, conflict, strategy, db_session) ==
    IF strategy # "auto" \/ ~ db_session THEN NotResolved(ts)
    ELSE IF conflict.conflict_type = "resource_overlap"
    THEN resolve_resource_overlap(ts, conflict)
    ELSE IF conflict.conflict_type = "dependency_violation"
    THEN resolve_dependency_violation(ts, conflict)
    ELSE IF conflict.conflict_type = "capacity_violation"
    THEN resolve_capacity_violation(ts, conflict)
    ELSE NotResolved(ts)

ConflictResolutionResult(request, resolved_count, unresolved, applied) ==
    [kind |-> "resolution", request |-> request,
     conflicts_detected |-> Len(request.conflicts),
     conflicts_resolved |-> resolved_count,
     unresolved_conflicts |-> unresolved,
     applied_resolutions |-> applied]

\* The loop of resolve_conflicts from conflict i on: the rows as committed and
\* the two lists of the result.
RECURSIVE resolve_loop(_, _, _, _, _, _, _)
resolve_loop(ts, cs, strategy, db_session, i, applied, unresolved) ==
    IF i > Len(cs)
    THEN [tasks |-> ts, applied_resolutions |-> applied, unresolved_conflicts |-> unresolved]
    ELSE LET r == resolve_single_conflict(ts, cs[i], strategy, db_session)
         IN IF r.applied # NoResolution
            THEN resolve_loop(r.tasks, cs, strategy, db_session, i + 1,
                              Append(applied, r.applied), unresolved)
            ELSE resolve_loop(r.tasks, cs, strategy, db_session, i + 1,
                              applied, Append(unresolved, cs[i]))

\* resolve_conflicts: the rows afterwards and the ConflictResolutionResult.
resolve_conflicts(ts, cs, strategy, db_session) ==
    LET done == resolve_loop(ts, cs, strategy, db_session, 1, <<>>, <<>>)
    IN [tasks |-> done.tasks,
        result |-> ConflictResolutionResult(
                       [conflicts |-> cs, resolution_strategy |-> strategy,
                        db_session |-> db_session],
                       Len(done.applied_resolutions),
                       done.unresolved_conflicts, done.applied_resolutions)]

(***************************************************************************)
(* The conflict service on one project: tasks are created, conflicts are   *)
(* detected, and the detected list is handed to resolve_conflicts.         *)
(***************************************************************************)
\* assigned_to, planned_start_date, planned_end_date, planned_duration_days,
\* estimated_hours, lag_days of the tasks that are created.
ConflictTaskInputs ==
    {<<"u1", Jan(1), Jan(10), 9, 100, 0>>,
     <<"u1", Jan(5), Jan(15), 10, 100, 0>>,
     <<"u1", Jan(8), Jan(9), 1, 16, 1>>,
     <<"u2", Jan(10), Jan(14), 4, 40, 1>>}

\* predecessor_tasks of a new task: none, or one of the existing tasks.
PredecessorInputs == {<<>>} \cup {<<id>> : id \in TaskIdsOf(tasks)}

\* resolution_strategy and whether a db_session is passed.
ResolveInputs == {<<"auto", TRUE>>, <<"auto", FALSE>>, <<"manual", TRUE>>}

CreateScheduledTask(w, predecessor_tasks) ==
    /\ Len(tasks) < MaxConflictTasks
    /\ tasks' = Append(tasks, TaskRow(TaskIds[Len(tasks) + 1], w, predecessor_tasks))
    /\ conflicts' = <<>>
    /\ resolution' = NoResult
    /\ UNCHANGED <<service_vars, deps, today, validation, cpm, opt, solver, calls, txn, baseline_vars>>

DetectProjectConflicts ==
    /\ conflicts' = detect_project_conflicts(tasks)
    /\ UNCHANGED <<service_vars, tasks, deps, today, validation, cpm, opt, solver, calls,
                   resolution, txn, baseline_vars>>

\* Every planned end is within the days the model follows.
WithinHorizon(ts) == \A i \in 1..Len(ts) : ts[i].planned_end_date <= Jan(MaxScheduleDay)

ResolveConflicts(strategy, db_session) ==
    /\ WithinHorizon(tasks)
    /\ LET r == resolve_conflicts(tasks, conflicts, strategy, db_session)
       IN /\ tasks' = r.tasks
          /\ resolution' = r.result
    /\ UNCHANGED <<service_vars, deps, today, validation, cpm, opt, solver, calls,
                   conflicts, txn, baseline_vars>>

ConflictInit == ValidatorInit

ConflictNext ==
    \/ \E w \in ConflictTaskInputs, p \in PredecessorInputs : CreateScheduledTask(w, p)
    \/ DetectProjectConflicts
    \/ \E r \in ResolveInputs : ResolveConflicts(r[1], r[2])

ConflictSpec == ConflictInit /\ [][ConflictNext]_vars

(***************************************************************************)
(* One resolve_conflicts call, conflict by conflict: every resolver commits *)
(* its own update, and the call can end between two conflicts (the process  *)
(* or the database connection goes away).                                   *)
(***************************************************************************)
BeginResolve ==
    /\ txn.pc = "idle"
    /\ WithinHorizon(tasks)
    /\ conflicts # <<>>
    /\ txn' = [pc |-> "running", before |-> tasks, todo |-> conflicts, i |-> 1,
               applied |-> <<>>, unresolved |-> <<>>]
    /\ UNCHANGED <<service_vars, tasks, deps, today, validation, cpm, opt, solver, calls,
                   conflicts, resolution, baseline_vars>>

\* One iteration of the loop: _resolve_single_conflict with its db_session.commit().
ResolveNextConflict ==
    /\ txn.pc = "running"
    /\ txn.i <= Len(txn.todo)
    /\ LET r == resolve_single_conflict(tasks, txn.todo[txn.i], "auto", TRUE)
       IN /\ tasks' = r.tasks
          /\ txn' = [txn EXCEPT
                        !.i = txn.i + 1,
                        !.applied = IF r.applied # NoResolution
                                    THEN Append(txn.applied, r.applied) ELSE txn.applied,
                        !.unresolved = IF r.applied # NoResolution
                                       THEN txn.unresolved
                                       ELSE Append(txn.unresolved, txn.todo[txn.i])]
    /\ UNCHANGED <<service_vars, deps, today, validation, cpm, opt, solver, calls,
                   conflicts, resolution, baseline_vars>>

FinishResolve ==
    /\ txn.pc = "running"
    /\ txn.i > Len(txn.todo)
    /\ resolution' = ConflictResolutionResult(
                         [conflicts |-> txn.todo, resolution_strategy |-> "auto",
                          db_session |-> TRUE],
                         Len(txn.applied), txn.unresolved, txn.applied)
    /\ txn' = IdleTxn
    /\ UNCHANGED <<service_vars, tasks, deps, today, validation, cpm, opt, solver, calls,
                   conflicts, baseline_vars>>

\* The call ends before the loop is through; what was committed stays.
StopResolve ==
    /\ txn.pc = "running"
    /\ txn.i <= Len(txn.todo)
    /\ txn' = [txn EXCEPT !.pc = "stopped"]
    /\ UNCHANGED <<service_vars, tasks, deps, today, validation, cpm, opt, solver, calls,
                   conflicts, resolution, baseline_vars>>

TransactionInit == ValidatorInit

TransactionNext ==
    \/ \E w \in ConflictTaskInputs, p \in PredecessorInputs :
          txn.pc = "idle" /\ CreateScheduledTask(w, p)
    \/ txn.pc = "idle" /\ DetectProjectConflicts
    \/ BeginResolve
    \/ ResolveNextConflict
    \/ FinishResolve
    \/ StopResolve

TransactionSpec == TransactionInit /\ [][TransactionNext]_vars

(***************************************************************************)
(* BaselineService.                                                        *)
(***************************************************************************)
\* A row of the tasks table with the columns the baseline service reads.
BaselineTaskRow(id) ==
    [id |-> id,
     name |-> "n1",
     description |-> "d1",
     planned_start_date |-> Jan(1),
     planned_end_date |-> Jan(5),
     planned_duration_days |-> 4,
     budgeted_cost |-> 1000,
     estimated_hours |-> 0,
     predecessor_tasks |-> <<>>]

\* utcnow advances in ticks of this many to the second.
TicksPerSecond == 2

\* _generate_baseline_version: "BL_" and the time to the second; the number
\* stands for the timestamp text, which orders as the seconds do.
generate_baseline_version(now) == now \div TicksPerSecond

\* An id as the tasks table holds it in predecessor_tasks, a string, and what
\* pydantic makes of it in a List[UUID] field; the two never compare equal.
StrOf(id) == <<"str", id>>

UUIDOf(s) == <<"UUID", s[2]>>

TaskBaseline(task, baseline_version, now) ==
    [task_id |-> task.id,
     baseline_version |-> baseline_version,
     name |-> task.name,
     description |-> task.description,
     planned_start_date |-> task.planned_start_date,
     planned_end_date |-> task.planned_end_date,
     planned_duration_days |-> task.planned_duration_days,
     budgeted_cost |-> task.budgeted_cost,
     estimated_hours |-> task.estimated_hours,
     predecessor_tasks |-> [k \in 1..Len(task.predecessor_tasks) |->
                               UUIDOf(task.predecessor_tasks[k])],
     created_at |-> now]

ProjectBaseline(baseline_version, task_baselines, total_budget, now) ==
    [baseline_version |-> baseline_version,
     task_baselines |-> task_baselines,
     total_budget |-> total_budget,
     created_at |-> now]

\* create_project_baseline on a project with tasks: the ProjectBaseline that is
\* returned. _store_project_baseline keeps nothing of it.
create_project_baseline(ts, now) ==
    LET baseline_version == generate_baseline_version(now)
    IN ProjectBaseline(baseline_version,
                       [i \in 1..Len(ts) |-> TaskBaseline(ts[i], baseline_version, now)],
                       SumOver([i \in 1..Len(ts) |-> ts[i].budgeted_cost], 1..Len(ts)),
                       now)

\* None (the baseline tables are not queried).
NoBaseline == [baseline_version |-> "none"]

\* _get_task_baseline
get_task_baseline(task_id, baseline_version) == NoBaseline

fields_to_compare ==
    <<"name", "description", "planned_start_date", "planned_end_date",
      "planned_duration_days", "budgeted_cost", "estimated_hours">>

determine_change_type(field_name) ==
    IF field_name \in {"planned_start_date", "planned_end_date"} THEN "schedule_change"
    ELSE IF field_name \in {"budgeted_cost", "estimated_hours"} THEN "cost_change"
    ELSE IF field_name \in {"name", "description"} THEN "content_change"
    ELSE IF field_name = "planned_duration_days" THEN "duration_change"
    ELSE "general_change"

Abs(x) == IF x < 0 THEN 0 - x ELSE x

\* _calculate_change_severity; percent_change > p is compared without dividing.
calculate_change_severity(field_name, old_value, new_value) ==
    IF field_name \in {"budgeted_cost", "estimated_hours"}
    THEN IF old_value # 0 /\ new_value # 0
         THEN IF Abs(new_value - old_value) * 100 > 50 * Abs(old_value) THEN 5
              ELSE IF Abs(new_value - old_value) * 100 > 25 * Abs(old_value) THEN 4
              ELSE 3
         ELSE 3
    ELSE IF field_name \in {"planned_start_date", "planned_end_date",
                            "planned_duration_days"}
    THEN 4
    ELSE IF field_name = "name" THEN 2
    ELSE 1

\* The label of the largest score, "none" without a score.
overall_severity(severity_scores) ==
    IF severity_scores = <<>> THEN "none"
    ELSE LET max_severity == Max(Range(severity_scores))
         IN IF max_severity >= 4 THEN "critical"
            ELSE IF max_severity >= 3 THEN "high"
            ELSE IF max_severity >= 2 THEN "medium"
            ELSE "low"

\* The field comparison of compare_task_to_baseline, given the current row and
\* a TaskBaseline: the changes in the order they are entered, and the severity.
compare_fields(task, baseline) ==
    LET changed == SelectRows(fields_to_compare,
                       [f \in Range(fields_to_compare) |-> task[f] # baseline[f]])
        field_changes == [k \in 1..Len(changed) |->
                            [field |-> changed[k],
                             old_value |-> baseline[changed[k]],
                             new_value |-> task[changed[k]],
                             change_type |-> determine_change_type(changed[k])]]
        field_scores == [k \in 1..Len(changed) |->
                            calculate_change_severity(changed[k], baseline[changed[k]],
                                                      task[changed[k]])]
        current_predecessors == Range(task.predecessor_tasks)
        baseline_predecessors == Range(baseline.predecessor_tasks)
        dependency_changed == current_predecessors # baseline_predecessors
        changes == IF dependency_changed
                   THEN Append(field_changes,
                               [field |-> "predecessor_tasks",
                                old_value |-> baseline_predecessors,
                                new_value |-> current_predecessors,
                                change_type |-> "dependency_change"])
                   ELSE field_changes
        severity_scores == IF dependency_changed THEN Append(field_scores, 3)
                           ELSE field_scores
    IN [kind |-> "comparison", task_id |-> task.id,
        baseline_version |-> baseline.baseline_version,
        baseline |-> baseline, task |-> task,
        changes |-> changes, severity |-> overall_severity(severity_scores)]

\* compare_task_to_baseline: the comparison, or the ValueError that is raised.
compare_task_to_baseline(ts, task_id, baseline_version) ==
    IF task_id \notin TaskIdsOf(ts)
    THEN [kind |-> "exc", exc |-> "ValueError", message |-> "Task not found",
          task_id |-> task_id, baseline_version |-> baseline_version]
    ELSE LET baseline == get_task_baseline(task_id, baseline_version)
         IN IF baseline = NoBaseline
            THEN [kind |-> "exc", exc |-> "ValueError", message |-> "Baseline not found",
                  task_id |-> task_id, baseline_version |-> baseline_version]
            ELSE compare_fields(TaskById(ts, task_id), baseline)

\* The fields restore_task_from_baseline restores when none are named.
all_restorable_fields ==
    <<"name", "description", "planned_start_date", "planned_end_date",
      "planned_duration_days", "budgeted_cost", "estimated_hours",
      "predecessor_tasks", "successor_tasks">>

\* The restore loop of restore_task_from_baseline, given the current row and a
\* TaskBaseline: the row after the setattr calls and the entries appended to
\* restored_fields. hasattr(baseline, f) is f \in DOMAIN baseline.
restore_fields(task, baseline, fields_to_restore) ==
    LET fields == IF fields_to_restore = <<>> THEN all_restorable_fields
                  ELSE fields_to_restore
        differs == [f \in Range(fields) |->
                       f \in DOMAIN baseline /\ task[f] # baseline[f]]
        changed == SelectRows(fields, differs)
    IN [task |-> [f \in DOMAIN task |->
                     IF f \in Range(changed) THEN baseline[f] ELSE task[f]],
        restored_fields |-> [k \in 1..Len(changed) |->
                                [field |-> changed[k],
                                 old_value |-> task[changed[k]],
                                 new_value |-> baseline[changed[k]]]]]

\* restore_task_from_baseline: the rows after the call and what it returns, or
\* the ValueError that is raised.
restore_task_from_baseline(ts, task_id, baseline_version, fields_to_restore) ==
    IF task_id \notin TaskIdsOf(ts)
    THEN [tasks |-> ts,
          result |-> [kind |-> "exc", exc |-> "ValueError", message |-> "Task not found",
                      task_id |-> task_id, baseline_version |-> baseline_version]]
    ELSE LET baseline == get_task_baseline(task_id, baseline_version)
             i == CHOOSE i \in 1..Len(ts) : ts[i].id = task_id
             r == restore_fields(ts[i], baseline, fields_to_restore)
         IN IF baseline = NoBaseline
            THEN [tasks |-> ts,
                  result |-> [kind |-> "exc", exc |-> "ValueError",
                              message |-> "Baseline not found",
                              task_id |-> task_id,
                              baseline_version |-> baseline_version]]
            ELSE [tasks |-> [ts EXCEPT ![i] = r.task],
                  result |-> [kind |-> "restore", task_id |-> task_id,
                              baseline_version |-> baseline_version,
                              fields |-> fields_to_restore,
                              before |-> ts[i], task |-> r.task,
                              restored_fields |-> r.restored_fields,
                              fields_restored_count |-> Len(r.restored_fields)]]

(***************************************************************************)
(* The baseline service on one project: tasks are created and edited, the  *)
(* clock advances, baselines are created and tasks compared to them.       *)
(***************************************************************************)
CreateBaselineTask ==
    /\ Len(tasks) < MaxBaselineTasks
    /\ tasks' = Append(tasks, BaselineTaskRow(TaskIds[Len(tasks) + 1]))
    /\ comparison' = NoResult
    /\ UNCHANGED <<service_vars, deps, today, validation, cpm, opt, solver, calls, conflict_vars,
                   utcnow, baselines>>

\* An edit of one column of one task.
UpdateTask(i, field_name, value) ==
    /\ i \in 1..Len(tasks)
    /\ tasks[i][field_name] # value
    /\ tasks' = [tasks EXCEPT ![i][field_name] = value]
    /\ comparison' = NoResult
    /\ UNCHANGED <<service_vars, deps, today, validation, cpm, opt, solver, calls, conflict_vars,
                   utcnow, baselines>>

Tick ==
    /\ utcnow < MaxTicks
    /\ utcnow' = utcnow + 1
    /\ UNCHANGED <<service_vars, tasks, deps, today, validation, cpm, opt, solver, calls,
                   conflict_vars, baselines, comparison>>

\* create_project_baseline; without tasks it raises ValueError and returns
\* nothing.
CreateProjectBaseline ==
    /\ Len(baselines) < MaxBaselines
    /\ baselines' = IF tasks = <<>> THEN baselines
                    ELSE Append(baselines, create_project_baseline(tasks, utcnow))
    /\ UNCHANGED <<service_vars, tasks, deps, today, validation, cpm, opt, solver, calls,
                   conflict_vars, utcnow, comparison>>

CompareTaskToBaseline(task_id, baseline_version) ==
    /\ comparison' = compare_task_to_baseline(tasks, task_id, baseline_version)
    /\ UNCHANGED <<service_vars, tasks, deps, today, validation, cpm, opt, solver, calls,
                   conflict_vars, utcnow, baselines>>

RestoreTaskFromBaseline(task_id, baseline_version, fields_to_restore) ==
    LET r == restore_task_from_baseline(tasks, task_id, baseline_version,
                                        fields_to_restore)
    IN /\ tasks' = r.tasks
       /\ restored' = r.result
       /\ comparison' = IF r.tasks = tasks THEN comparison ELSE NoResult
       /\ UNCHANGED <<evm, deps, today, validation, cpm, opt, solver, calls,
                      conflict_vars, utcnow, baselines>>

\* The field lists the callers pass; the empty one is the omitted argument.
RestoreInputs == {<<>>, <<"budgeted_cost">>}

\* The versions the callers hold, and one that no call returned.
VersionInputs == {baselines[k].baseline_version : k \in 1..Len(baselines)} \cup {MaxTicks}

BaselineInit == ValidatorInit

BaselineNext ==
    \/ CreateBaselineTask
    \/ \E i \in 1..MaxBaselineTasks, v \in {1000, 1500} : UpdateTask(i, "budgeted_cost", v)
    \/ Tick
    \/ CreateProjectBaseline
    \/ \E id \in Range(TaskIds), v \in VersionInputs : CompareTaskToBaseline(id, v)
    \/ \E id \in Range(TaskIds), v \in VersionInputs, f \in RestoreInputs :
          RestoreTaskFromBaseline(id, v, f)

BaselineSpec == BaselineInit /\ [][BaselineNext]_vars

(***************************************************************************)
(* The scoring of compare_task_to_baseline as a function: the comparison   *)
(* applied to a task and the TaskBaseline a create call returned for it.   *)
(***************************************************************************)
\* The columns that are edited and the values they are given.
FieldInputs ==
    {<<"name", "n2">>, <<"description", "d2">>,
     <<"planned_end_date", Jan(6)>>, <<"planned_duration_days", 5>>,
     <<"budgeted_cost", 1000>>, <<"budgeted_cost", 1300>>,
     <<"budgeted_cost", 1600>>,
     <<"predecessor_tasks", <<StrOf(DanglingId)>>>>}

CompareFields(i, k) ==
    /\ i \in 1..Len(tasks)
    /\ k \in 1..Len(baselines)
    /\ i \in 1..Len(baselines[k].task_baselines)
    /\ comparison' = compare_fields(tasks[i], baselines[k].task_baselines[i])
    /\ UNCHANGED <<service_vars, tasks, deps, today, validation, cpm, opt, solver, calls,
                   conflict_vars, utcnow, baselines>>

ScoringInit == ValidatorInit

ScoringNext ==
    \/ CreateBaselineTask
    \/ \E f \in FieldInputs : UpdateTask(1, f[1], f[2])
    \/ baselines = <<>> /\ CreateProjectBaseline
    \/ CompareFields(1, 1)

ScoringSpec == ScoringInit /\ [][ScoringNext]_vars

(***************************************************************************)
(* EarnedValueService. Amounts of money are whole cents; a Decimal that is *)
(* the quotient of two amounts is kept as the fraction itself (the 28      *)
(* digits of the decimal context are not cut off), so that quantize and    *)
(* every comparison with a threshold work on the exact quotient.           *)
(***************************************************************************)
\* A row of the tasks table with the columns the service reads.
CostedTaskRow(id, w) ==
    [id |-> id, budgeted_cost |-> w[1], progress_percentage |-> w[2],
     actual_cost |-> w[3]]

\* The Decimal n / d, d > 0.
Ratio(n, d) == [n |-> n, d |-> d]

DecimalZero == Ratio(0, 1)

\* x < a / b and x > a / b for a Decimal x and a threshold written a / b.
Below(x, a, b) == x.n * b < a * x.d

Above(x, a, b) == x.n * b > a * x.d

\* (n / d).quantize(Decimal('0.01'), rounding=ROUND_HALF_UP), in cents.
Quantize(n, d) ==
    IF n >= 0 THEN (2 * n + d) \div (2 * d) ELSE 0 - ((d - 2 * n) \div (2 * d))

\* _calculate_planned_value
calculate_planned_value(project_budget, project_start_date, project_end_date, now) ==
    LET total_days == project_end_date - project_start_date
        days_elapsed == now - project_start_date
    IN IF total_days <= 0 THEN 0
       ELSE IF days_elapsed <= 0 THEN 0
       ELSE Quantize(project_budget * Min({days_elapsed, total_days}), total_days)

\* _calculate_earned_value
calculate_earned_value(ts) ==
    LET total_budgeted_cost == SumOver([i \in 1..Len(ts) |-> ts[i].budgeted_cost],
                                       1..Len(ts))
        total_earned == SumOver([i \in 1..Len(ts) |->
                                    IF ts[i].budgeted_cost > 0
                                    THEN ts[i].budgeted_cost * ts[i].progress_percentage
                                    ELSE 0], 1..Len(ts))
    IN IF total_budgeted_cost <= 0 THEN 0 ELSE Quantize(total_earned, 100)

\* _calculate_actual_cost
calculate_actual_cost(ts) ==
    SumOver([i \in 1..Len(ts) |-> ts[i].actual_cost], 1..Len(ts))

\* _calculate_eac
calculate_eac(actual_cost, earned_value, budget_at_completion, cpi) ==
    LET remaining_work == budget_at_completion - earned_value
    IN IF cpi.n <= 0 THEN budget_at_completion
       ELSE IF remaining_work <= 0 THEN actual_cost
       ELSE Quantize(actual_cost * cpi.n + remaining_work * cpi.d, cpi.n)

\* The remaining budget that goes into TCPI.
remaining_budget(project_budget, ac, ev) == project_budget - ac

\* calculate_project_evm on rows of the tasks table: no statement of the try
\* block raises on them, so the metrics of the try block are returned.
calculate_project_evm(ts, project_budget, project_start_date, project_end_date, now) ==
    LET pv == calculate_planned_value(project_budget, project_start_date,
                                      project_end_date, now)
        ev == calculate_earned_value(ts)
        ac == calculate_actual_cost(ts)
        spi == IF pv > 0 THEN Ratio(ev, pv) ELSE DecimalZero
        cpi == IF ac > 0 THEN Ratio(ev, ac) ELSE DecimalZero
        eac == calculate_eac(ac, ev, project_budget, cpi)
        bac == project_budget
    IN [planned_value |-> pv,
        earned_value |-> ev,
        actual_cost |-> ac,
        budget_at_completion |-> bac,
        schedule_variance |-> ev - pv,
        cost_variance |-> ev - ac,
        schedule_performance_index |-> spi,
        cost_performance_index |-> cpi,
        estimate_at_completion |-> eac,
        estimate_to_complete |-> eac - ac,
        variance_at_completion |-> project_budget - eac,
        to_complete_performance_index |->
            IF eac - ev > 0 THEN Ratio(remaining_budget(project_budget, ac, ev), eac - ev)
            ELSE DecimalZero,
        percent_complete |-> IF bac > 0 THEN Ratio(ev * 100, bac) ELSE DecimalZero]

\* What the division of a nonzero Decimal by Decimal('0') raises.
DivisionByZero == [kind |-> "exc", exc |-> "DivisionByZero"]

\* abs(part / whole * 100) > percent, for whole # 0.
PercentAbove(part, whole, percent) == Abs(part) * 100 > percent * Abs(whole)

\* _analyze_schedule_status
analyze_schedule_status(m) ==
    IF m.schedule_variance > 0 THEN "ahead_of_schedule"
    ELSE IF m.schedule_variance = 0 THEN "on_schedule"
    ELSE IF m.planned_value > 0 /\ PercentAbove(m.schedule_variance, m.planned_value, 20)
    THEN "significantly_behind_schedule"
    ELSE IF m.planned_value > 0 /\ PercentAbove(m.schedule_variance, m.planned_value, 10)
    THEN "moderately_behind_schedule"
    ELSE "slightly_behind_schedule"

\* _analyze_cost_status
analyze_cost_status(m) ==
    IF m.cost_variance > 0 THEN "under_budget"
    ELSE IF m.cost_variance = 0 THEN "on_budget"
    ELSE IF m.earned_value > 0 /\ PercentAbove(m.cost_variance, m.earned_value, 20)
    THEN "significantly_over_budget"
    ELSE IF m.earned_value > 0 /\ PercentAbove(m.cost_variance, m.earned_value, 10)
    THEN "moderately_over_budget"
    ELSE "slightly_over_budget"

\* days_remaining = 30
ForecastDaysRemaining == 30

\* _calculate_forecast_completion: the date, NoDate for None.
calculate_forecast_completion(m, now) ==
    IF m.schedule_performance_index.n <= 0 THEN NoDate
    ELSE now + ((ForecastDaysRemaining * m.schedule_performance_index.d)
                   \div m.schedule_performance_index.n)

\* _calculate_risk_indicators: the dict, or the exception of line 321.
calculate_risk_indicators(m) ==
    LET schedule_risk == IF Below(m.schedule_performance_index, 9, 10) THEN 2
                         ELSE IF Below(m.schedule_performance_index, 95, 100) THEN 1
                         ELSE 0
        cost_risk == IF Below(m.cost_performance_index, 9, 10) THEN 2
                     ELSE IF Below(m.cost_performance_index, 95, 100) THEN 1
                     ELSE 0
        tcpi_risk == IF Above(m.to_complete_performance_index, 11, 10) THEN 1 ELSE 0
        vac_risk == IF m.variance_at_completion >= 0 THEN 0
                    ELSE IF PercentAbove(m.variance_at_completion,
                                         m.budget_at_completion, 15) THEN 2
                    ELSE IF PercentAbove(m.variance_at_completion,
                                         m.budget_at_completion, 5) THEN 1
                    ELSE 0
        risk_score == schedule_risk + cost_risk + tcpi_risk + vac_risk
        risk_level == IF risk_score >= 4 THEN "high"
                      ELSE IF risk_score >= 2 THEN "medium"
                      ELSE "low"
    IN IF m.variance_at_completion < 0 /\ m.budget_at_completion = 0
       THEN DivisionByZero
       ELSE [kind |-> "risk", overall_risk_level |-> risk_level,
             risk_score |-> risk_score, mitigation_priority |-> risk_level]

\* analyze_evm_performance: the EVMAnalysis, or the exception that leaves it.
analyze_evm_performance(m, now) ==
    LET risk_indicators == calculate_risk_indicators(m)
    IN IF risk_indicators.kind = "exc" THEN risk_indicators
       ELSE [kind |-> "analysis",
             schedule_status |-> analyze_schedule_status(m),
             cost_status |-> analyze_cost_status(m),
             forecast_completion_date |-> calculate_forecast_completion(m, now),
             risk_indicators |-> risk_indicators]

\* _calculate_success_probability
calculate_success_probability(m) ==
    LET spi == m.schedule_performance_index
        cpi == m.cost_performance_index
        pc == m.percent_complete
    IN (IF ~Below(spi, 1, 1) THEN 40 ELSE IF ~Below(spi, 9, 10) THEN 30
        ELSE IF ~Below(spi, 8, 10) THEN 20 ELSE 10)
       + (IF ~Below(cpi, 1, 1) THEN 40 ELSE IF ~Below(cpi, 9, 10) THEN 30
          ELSE IF ~Below(cpi, 8, 10) THEN 20 ELSE 10)
       + (IF ~Below(pc, 75, 1) THEN 20 ELSE IF ~Below(pc, 50, 1) THEN 15
          ELSE IF ~Below(pc, 25, 1) THEN 10 ELSE 5)

\* _identify_key_risks: the risks that are named, or the exception of line 480.
\* The early-stage risk of line 484 is never named: its second operand is a
\* timedelta of zero days.
identify_key_risks(m) ==
    IF m.variance_at_completion < 0 /\ m.budget_at_completion = 0
    THEN DivisionByZero
    ELSE [kind |-> "risks",
          risks |-> {r \in {"schedule", "cost", "completion", "budget"} :
                       \/ r = "schedule" /\ Below(m.schedule_performance_index, 85, 100)
                       \/ r = "cost" /\ Below(m.cost_performance_index, 85, 100)
                       \/ r = "completion"
                             /\ Above(m.to_complete_performance_index, 12, 10)
                       \/ r = "budget" /\ m.variance_at_completion < 0
                             /\ PercentAbove(m.variance_at_completion,
                                             m.budget_at_completion, 20)}]

\* predict_project_outcomes: the EVMPrediction, or the exception that leaves it.
predict_project_outcomes(m, now) ==
    LET key_risks == identify_key_risks(m)
    IN IF key_risks.kind = "exc" THEN key_risks
       ELSE [kind |-> "prediction",
             predicted_final_cost |-> m.estimate_at_completion,
             predicted_completion_date |-> calculate_forecast_completion(m, now),
             cost_lower_bound |-> Quantize(m.estimate_at_completion * 9, 10),
             cost_upper_bound |-> Quantize(m.estimate_at_completion * 11, 10),
             success_probability |-> calculate_success_probability(m),
             key_risks |-> key_risks.risks]

(***************************************************************************)
(* The earned-value endpoints on one project: tasks with costs and         *)
(* progress are created, the metrics calculated, then analysed and used    *)
(* for a prediction.                                                       *)
(***************************************************************************)
\* budgeted_cost, progress_percentage, actual_cost
CostedTaskInputs ==
    {<<1000, 50, 500>>, <<1000, 100, 0>>, <<1000, 50, 2000>>, <<333, 50, 100>>,
     <<0, 0, 0>>}

\* project.budget or 0
BudgetInputs == {0, 1000, 2000}

ProjectStartDate == Jan(10)

\* project.end_date
EndDateInputs == {Jan(10), Jan(25), Jan(50)}

CreateCostedTask(w) ==
    /\ Len(tasks) < MaxEvmTasks
    /\ tasks' = Append(tasks, CostedTaskRow(TaskIds[Len(tasks) + 1], w))
    /\ evm' = NoResult
    /\ UNCHANGED <<restored, deps, today, validation, cpm, opt, solver, calls,
                   conflict_vars, baseline_vars>>

\* GET .../evm of the router.
CalculateProjectEvm(project_budget, project_end_date) ==
    /\ evm' = [kind |-> "evm",
               metrics |-> calculate_project_evm(tasks, project_budget, ProjectStartDate,
                                                 project_end_date, today),
               analysis |-> NoResult,
               prediction |-> NoResult]
    /\ UNCHANGED <<restored, tasks, deps, today, validation, cpm, opt, solver, calls,
                   conflict_vars, baseline_vars>>

\* analyze_evm_performance on the metrics the caller has.
AnalyzeEvmPerformance ==
    /\ evm.kind = "evm"
    /\ evm.analysis = NoResult
    /\ evm' = [evm EXCEPT !.analysis = analyze_evm_performance(evm.metrics, today)]
    /\ UNCHANGED <<restored, tasks, deps, today, validation, cpm, opt, solver, calls,
                   conflict_vars, baseline_vars>>

\* predict_project_outcomes on the metrics the caller has.
PredictProjectOutcomes ==
    /\ evm.kind = "evm"
    /\ evm.prediction = NoResult
    /\ evm' = [evm EXCEPT !.prediction = predict_project_outcomes(evm.metrics, today)]
    /\ UNCHANGED <<restored, tasks, deps, today, validation, cpm, opt, solver, calls,
                   conflict_vars, baseline_vars>>

EvmInit == ValidatorInit

EvmNext ==
    \/ \E w \in CostedTaskInputs : CreateCostedTask(w)
    \/ \E b \in BudgetInputs, d \in EndDateInputs : CalculateProjectEvm(b, d)
    \/ AnalyzeEvmPerformance
    \/ PredictProjectOutcomes

EvmSpec == EvmInit /\ [][EvmNext]_vars

(***************************************************************************)
(* DependencyValidationService.validate_task_dependencies.                 *)
(***************************************************************************)
RECURSIVE check_path(_, _, _, _)
RECURSIVE check_path_successors(_, _, _, _, _)

\* check_path of _detect_cycles_in_task_graph; st holds visited, the path list
\* of the call and cycles.
check_path(adj, current, target, st) ==
    IF current \in Range(st.path) THEN [st |-> st, ret |-> TRUE]
    ELSE IF current = target /\ Len(st.path) > 0
    THEN [st |-> [st EXCEPT !.cycles = Append(@, st.path \o <<current>>)], ret |-> TRUE]
    ELSE check_path_successors(adj, current, target, 1,
                               [st EXCEPT !.path = Append(@, current)])

check_path_successors(adj, current, target, i, st) ==
    IF i > Len(adj.at[current])
    THEN [st |-> [st EXCEPT !.path = Front(@)], ret |-> FALSE]
    ELSE LET pred == adj.at[current][i]
         IN IF pred \notin st.visited
            THEN LET r == check_path(adj, pred, target,
                                     [st EXCEPT !.visited = @ \cup {pred}])
                 IN IF r.ret THEN r
                    ELSE check_path_successors(adj, current, target, i + 1, r.st)
            ELSE check_path_successors(adj, current, target, i + 1, st)

\* for pred in graph['adj_list'].get(task_id, []): every call gets a new path.
RECURSIVE check_from_task(_, _, _, _)
check_from_task(adj, task_id, i, st) ==
    IF i > Len(adj.at[task_id]) THEN st
    ELSE LET r == check_path(adj, adj.at[task_id][i], task_id, [st EXCEPT !.path = <<>>])
         IN IF r.ret THEN r.st ELSE check_from_task(adj, task_id, i + 1, r.st)

detect_cycles_in_task_graph(adj, task_id) ==
    check_from_task(adj, task_id, 1, [visited |-> {}, path |-> <<>>, cycles |-> <<>>]).cycles

\* _validate_dependency_dates: dep.predecessor of a row whose predecessor is
\* no task is None, and reading its planned_end_date raises.
validate_dependency_dates(ts, task, dependencies) ==
    LET mine == SelectRows(dependencies,
                    [d \in Range(dependencies) |-> d.successor_id = task.id])
        late(d) == /\ TaskById(ts, d.predecessor_id).planned_end_date # NoDate
                   /\ task.planned_start_date # NoDate
                   /\ TaskById(ts, d.predecessor_id).planned_end_date
                         > task.planned_start_date
    IN IF \E k \in 1..Len(mine) : mine[k].predecessor_id \notin TaskIdsOf(ts)
       THEN [exc |-> "AttributeError", warnings |-> <<>>]
       ELSE [exc |-> "",
             warnings |-> LET kept == SelectRows(mine, [d \in Range(mine) |-> late(d)])
                          IN [k \in 1..Len(kept) |->
                                 Msg("dependency_date_issue", <<kept[k].predecessor_id>>)]]

TaskValidationResult(is_valid, errors, warnings, circular_references, orphaned_tasks) ==
    [kind |-> "task_validation", is_valid |-> is_valid, errors |-> errors,
     warnings |-> warnings, circular_references |-> circular_references,
     orphaned_tasks |-> orphaned_tasks, invalid_dependencies |-> <<>>]

validate_task_dependencies(ts, ds, task_id) ==
    IF task_id \notin TaskIdsOf(ts)
    THEN TaskValidationResult(FALSE, <<Msg("task_not_found", <<>>)>>, <<>>, <<>>,
                              <<task_id>>)
    ELSE LET dependencies == SelectRows(ds,
                                 [d \in Range(ds) |-> \/ d.predecessor_id = task_id
                                                      \/ d.successor_id = task_id])
             cycles == detect_cycles_in_task_graph(
                           BuildAdjList(dependencies, EmptyAdjList), task_id)
             date_issues == validate_dependency_dates(ts, TaskById(ts, task_id),
                                                      dependencies)
         IN IF date_issues.exc # ""
            THEN TaskValidationResult(FALSE,
                     <<Msg("validation_failed", <<date_issues.exc>>)>>, <<>>, <<>>, <<>>)
            ELSE TaskValidationResult(cycles = <<>>,
                     IF cycles = <<>> THEN <<>>
                     ELSE <<Msg("circular_dependency", cycles[1])>>,
                     date_issues.warnings, cycles, <<>>)

ValidateTaskDependencies(task_id) ==
    /\ validation' = validate_task_dependencies(tasks, deps, task_id)
    /\ UNCHANGED <<service_vars, tasks, deps, today, cpm, opt, solver, calls,
                   conflict_vars, baseline_vars>>

TaskValidatorInit == ValidatorInit

\* The validator endpoints on a project of at most two tasks.
TaskValidatorNext ==
    \/ \E w \in {<<Jan(1), Jan(5), 4, 0>>} : Len(tasks) < MaxValidatedTasks /\ CreateTask(w)
    \/ \E p \in TaskDepEndpoints, s \in TaskDepEndpoints : CreateDependency(p, s, 0)
    \/ ValidateProjectDependencies
    \/ \E id \in TaskDepEndpoints : ValidateTaskDependencies(id)

TaskValidatorSpec == TaskValidatorInit /\ [][TaskValidatorNext]_vars

(***************************************************************************)
(* TaskService.update_task_progress.                                       *)
(***************************************************************************)
\* No parent_task_id.
NoParent == ""

\* A key that progress_data does not have: a progress and a status.
NoProgress == 0 - 1

NoStatus == ""

\* A new row of the tasks table with the columns update_task_progress uses.
SubtaskRow(id, parent_task_id) ==
    [id |-> id, parent_task_id |-> parent_task_id, status |-> "not_started",
     progress_percentage |-> 0, actual_start_date |-> NoDate,
     actual_end_date |-> NoDate]

\* The task of update_task_progress after lines 245-265.
progress_fields(task, progress_data, now) ==
    LET p == progress_data.progress_percentage
        t1 == IF p = NoProgress THEN task
              ELSE IF p = 100
              THEN [task EXCEPT !.progress_percentage = p, !.status = "completed",
                                !.actual_end_date = now]
              ELSE IF p > 0 /\ task.status = "not_started"
              THEN [task EXCEPT !.progress_percentage = p, !.status = "in_progress",
                                !.actual_start_date = DateOr(@, now)]
              ELSE [task EXCEPT !.progress_percentage = p]
        s == progress_data.status
    IN IF s = NoStatus THEN t1
       ELSE IF s = "in_progress"
       THEN [t1 EXCEPT !.status = s, !.actual_start_date = DateOr(@, now)]
       ELSE IF s = "completed"
       THEN [t1 EXCEPT !.status = s, !.actual_end_date = DateOr(@, now)]
       ELSE [t1 EXCEPT !.status = s]

\* _update_parent_progress: the rows after the roll-up.
update_parent_progress(ts, parent_task_id, now) ==
    LET subtasks == {i \in 1..Len(ts) : ts[i].parent_task_id = parent_task_id}
        total_progress == SumOver([i \in 1..Len(ts) |-> ts[i].progress_percentage],
                                  subtasks)
        completed_count == Cardinality({i \in subtasks : ts[i].status = "completed"})
        rolled(parent_task) ==
            LET q == [parent_task EXCEPT
                         !.progress_percentage = total_progress \div Cardinality(subtasks)]
            IN IF completed_count = Cardinality(subtasks)
               THEN [q EXCEPT !.status = "completed", !.actual_end_date = now]
               ELSE IF \E i \in subtasks : ts[i].status = "in_progress"
               THEN [q EXCEPT !.status = "in_progress"]
               ELSE q
    IN IF parent_task_id \notin TaskIdsOf(ts) \/ subtasks = {} THEN ts
       ELSE [i \in 1..Len(ts) |->
                IF ts[i].id = parent_task_id THEN rolled(ts[i]) ELSE ts[i]]

\* update_task_progress: the rows after the commit.
update_task_progress(ts, task_id, progress_data, now) ==
    LET updated == [i \in 1..Len(ts) |->
                       IF ts[i].id = task_id
                       THEN progress_fields(ts[i], progress_data, now) ELSE ts[i]]
        task == TaskById(updated, task_id)
    IN IF task.parent_task_id # NoParent
       THEN update_parent_progress(updated, task.parent_task_id, now)
       ELSE updated

(***************************************************************************)
(* Tasks and subtasks of one project and the progress updates on them.     *)
(***************************************************************************)
CreateSubtask(parent_task_id) ==
    /\ Len(tasks) < MaxProgressTasks
    /\ tasks' = Append(tasks, SubtaskRow(TaskIds[Len(tasks) + 1], parent_task_id))
    /\ UNCHANGED <<service_vars, deps, today, validation, cpm, opt, solver, calls,
                   conflict_vars, baseline_vars>>

\* The progress_data of the callers: a progress, a status, or both.
ProgressInputs ==
    [progress_percentage : {NoProgress, 50, 100},
     status : {NoStatus, "in_progress", "completed"}]

UpdateTaskProgress(task_id, progress_data) ==
    /\ task_id \in TaskIdsOf(tasks)
    /\ tasks' = update_task_progress(tasks, task_id, progress_data, today)
    /\ UNCHANGED <<service_vars, deps, today, validation, cpm, opt, solver, calls,
                   conflict_vars, baseline_vars>>

ProgressInit == ValidatorInit

ProgressNext ==
    \/ \E parent \in {NoParent} \cup TaskIdsOf(tasks) : CreateSubtask(parent)
    \/ \E id \in TaskIdsOf(tasks), d \in ProgressInputs : UpdateTaskProgress(id, d)

ProgressSpec == ProgressInit /\ [][ProgressNext]_vars

(***************************************************************************)
(* The whole engine: every operation on one project.                       *)
(***************************************************************************)
Init == ValidatorInit

Next ==
    \/ ValidatorNext \/ CpmNext \/ OptimizerNext \/ SolverNext
    \/ ConflictNext \/ TransactionNext \/ BaselineNext \/ ScoringNext
    \/ EvmNext \/ TaskValidatorNext \/ ProgressNext

Spec == Init /\ [][Next]_vars

(***************************************************************************)
(* Graph notions the properties are stated with.                           *)
(***************************************************************************)
EdgesOf(ds) == {<<ds[i].predecessor_id, ds[i].successor_id>> : i \in 1..Len(ds)}

\* n reaches m along one or more edges.
RECURSIVE ReachFrom(_, _)
ReachFrom(E, S) ==
    LET T == S \cup {e[2] : e \in {f \in E : f[1] \in S}}
    IN IF T = S THEN S ELSE ReachFrom(E, T)

Reaches(E, n, m) == m \in ReachFrom(E, {e[2] : e \in {f \in E : f[1] = n}})

OnCycle(E, n) == Reaches(E, n, n)

Cyclic(E) == \E e \in E : OnCycle(E, e[1])

\* c is an ordered list of ids closing a loop of the graph.
IsCycleOf(c, E) ==
    /\ Len(c) >= 2
    /\ c[1] = c[Len(c)]
    /\ \A i \in 1..(Len(c) - 1) : <<c[i], c[i + 1]>> \in E

WellFormedGraph(ts, ds) ==
    /\ ~Cyclic(EdgesOf(ds))
    /\ \A e \in EdgesOf(ds) : e[1] \in TaskIdsOf(ts) /\ e[2] \in TaskIdsOf(ts) /\ e[1] # e[2]

Validated == validation.kind = "validation"

TriangleEdges == {<<"T1", "T2">>, <<"T2", "T3">>, <<"T3", "T1">>}

\* C1: validating a task/edge set whose edges contain a cycle gives
\* is_valid = false and reports a cycle of the graph; for the edges
\* T1->T2, T2->T3, T3->T1 the reported cycle has exactly the ids {T1, T2, T3}.
C1_CycleInvalidAndReported ==
    (Validated /\ Cyclic(EdgesOf(deps))) =>
        /\ validation.is_valid = FALSE
        /\ \E i \in 1..Len(validation.circular_references) :
              IsCycleOf(validation.circular_references[i], EdgesOf(deps))
        /\ (EdgesOf(deps) = TriangleEdges =>
              \E i \in 1..Len(validation.circular_references) :
                  Range(validation.circular_references[i]) = {"T1", "T2", "T3"})

\* C2: validating an acyclic task/edge set without dangling reference and
\* without self-loop gives is_valid = true and no errors, whatever the number
\* of edges.
C2_WellFormedGraphValid ==
    (Validated /\ WellFormedGraph(tasks, deps)) =>
        /\ validation.is_valid = TRUE
        /\ validation.errors = <<>>

(***************************************************************************)
(* The CPM results.                                                        *)
(***************************************************************************)
\* The result held was returned by TaskService.calculate_critical_path.
ByCalculateCriticalPath == cpm.kind = "cpm" /\ cpm.via \in {"service", "ortools", "fallback"}

\* A CPMResult was returned, by any of the CPM computations.
CpmReturned == cpm.kind = "cpm" /\ cpm.exc = ""

ScheduleOf(id) ==
    cpm.task_schedules[CHOOSE i \in 1..Len(cpm.task_schedules) :
                           cpm.task_schedules[i].task_id = id]

AllScheduled == \A id \in TaskIdsOf(tasks) :
                    \E i \in 1..Len(cpm.task_schedules) : cpm.task_schedules[i].task_id = id

\* The chains of the graph: lists of distinct tasks linked by edges.
Chains ==
    {c \in UNION {[1..n -> TaskIdsOf(tasks)] : n \in 1..Len(tasks)} :
        /\ \A i \in 1..Len(c), j \in 1..Len(c) : i # j => c[i] # c[j]
        /\ \A i \in 1..(Len(c) - 1) : <<c[i], c[i + 1]>> \in EdgesOf(deps)}

RECURSIVE SummedDuration(_)
SummedDuration(c) ==
    IF c = <<>> THEN 0 ELSE ScheduleOf(c[1]).duration + SummedDuration(Tail(c))

SourceToSink(c) ==
    /\ \A e \in EdgesOf(deps) : e[2] # c[1]
    /\ \A e \in EdgesOf(deps) : e[1] # c[Len(c)]

\* The inputs of a CPM computation that the rows carry.
InputsOf(ts) ==
    [i \in 1..Len(ts) |-> <<ts[i].id, ts[i].planned_start_date, ts[i].planned_end_date,
                            ts[i].planned_duration_days, ts[i].lag_days>>]

\* T1 2024-01-01 -> 2024-01-05 followed finish-to-start, lag 0, by
\* T2 2024-01-05 -> 2024-01-10.
Scenario1 ==
    /\ InputsOf(tasks) = <<<<"T1", Jan(1), Jan(5), 4, 0>>, <<"T2", Jan(5), Jan(10), 5, 0>>>>
    /\ deps = <<TaskDependency(1, "T1", "T2", 0)>>

\* C3: for an acyclic graph, calculate_critical_path gives every task
\* slack >= 0 with slack = latest_start - earliest_start, and the tasks with
\* slack 0 contain a chain from a task without predecessors to a task without
\* successors whose summed duration is the reported total_duration.
C3_SlackAndCriticalChain ==
    (ByCalculateCriticalPath /\ cpm.exc = "" /\ ~Cyclic(EdgesOf(deps))) =>
        /\ AllScheduled
        /\ \A i \in 1..Len(cpm.task_schedules) :
              LET x == cpm.task_schedules[i]
              IN x.slack >= 0 /\ x.slack = x.latest_start - x.earliest_start
        /\ \E c \in Chains :
              /\ SourceToSink(c)
              /\ \A i \in 1..Len(c) : ScheduleOf(c[i]).slack = 0
              /\ SummedDuration(c) = cpm.total_duration

\* C4: calculate_critical_path reports as total_duration the span from the
\* least earliest_start to the greatest earliest_finish of the schedules, and
\* marks every task of a longest chain critical; in Scenario 1 both tasks are
\* critical and total_duration is 9.
C4_TotalDurationIsSpan ==
    (ByCalculateCriticalPath /\ cpm.exc = "" /\ ~Cyclic(EdgesOf(deps))) =>
        /\ AllScheduled
        /\ cpm.total_duration =
              Max({cpm.task_schedules[i].earliest_finish : i \in 1..Len(cpm.task_schedules)})
              - Min({cpm.task_schedules[i].earliest_start : i \in 1..Len(cpm.task_schedules)})
        /\ \A c \in Chains :
              (\A d \in Chains : SummedDuration(d) <= SummedDuration(c)) =>
                  \A i \in 1..Len(c) : ScheduleOf(c[i]).is_critical
        /\ (Scenario1 =>
              /\ cpm.total_duration = 9
              /\ Range(cpm.critical_path) = {"T1", "T2"})

\* C5: in a CPM forward pass over an acyclic graph, whatever the order of the
\* tasks, a task with predecessors gets as earliest_start the greatest, over
\* its incoming edges, of the predecessor's computed earliest_finish plus the
\* lag of the edge, and as earliest_finish its earliest_start plus its duration.
C5_ForwardPass ==
    (CpmReturned /\ ~Cyclic(EdgesOf(deps))) =>
        /\ AllScheduled
        /\ \A i \in 1..Len(cpm.task_schedules) :
              LET x == cpm.task_schedules[i]
                  incoming == {k \in 1..Len(deps) : deps[k].successor_id = x.task_id}
              IN /\ x.earliest_finish = x.earliest_start + x.duration
                 /\ incoming # {} =>
                       x.earliest_start =
                           Max({ScheduleOf(deps[k].predecessor_id).earliest_finish
                                + deps[k].lag_days : k \in incoming})

\* C6: a CPM computation repeated on the same tasks and edges returns the same
\* result, whatever the current date at each call.
C6_SameInputsSameSchedule ==
    [][(/\ cpm.kind = "cpm" /\ cpm'.kind = "cpm" /\ cpm'.via = cpm.via
        /\ InputsOf(tasks') = InputsOf(tasks) /\ deps' = deps)
       => cpm' = cpm]_vars

\* C7: calculate_critical_path on a graph with a cycle fails with InvalidGraph
\* and returns no CPMResult.
C7_CyclicGraphRejected ==
    (ByCalculateCriticalPath /\ Cyclic(EdgesOf(deps))) => cpm.exc = "InvalidGraph"

(***************************************************************************)
(* The optimizer results.                                                  *)
(***************************************************************************)
\* The schedule an optimizer call returned, and whether it is a solution.
OptimizedOf(r) ==
    IF r.kind = "leveling" THEN r.optimized_schedule
    ELSE IF r.kind = "optimization" THEN r.optimized_tasks
    ELSE <<>>

SolutionReturned ==
    \/ opt.kind = "leveling" /\ opt.optimized_schedule # <<>>
    \/ opt.kind = "optimization" /\ opt.solution_found

NoSolutionReturned ==
    \/ opt.kind = "leveling" /\ opt.optimized_schedule = <<>>
    \/ opt.kind = "optimization" /\ ~opt.solution_found

OptimizedEntry(id) ==
    OptimizedOf(opt)[CHOOSE i \in 1..Len(OptimizedOf(opt)) : OptimizedOf(opt)[i].task_id = id]

IsOptimized(id) == \E i \in 1..Len(OptimizedOf(opt)) : OptimizedOf(opt)[i].task_id = id

\* The demand on a resource type of the tasks running on a day.
DemandOn(resource_type, day) ==
    LET running == {i \in 1..Len(tasks) :
                       /\ IsOptimized(tasks[i].id)
                       /\ OptimizedEntry(tasks[i].id).optimized_start <= day
                       /\ day < OptimizedEntry(tasks[i].id).optimized_end}
        demand == [i \in running |->
                      SumOver([kv \in {x \in required_resources(tasks[i]) : x[1] = resource_type}
                                  |-> kv[2]],
                              {x \in required_resources(tasks[i]) : x[1] = resource_type})]
    IN SumOver(demand, running)

ScheduledDays ==
    UNION {OptimizedOf(opt)[i].optimized_start..OptimizedOf(opt)[i].optimized_end :
              i \in 1..Len(OptimizedOf(opt))}

ConstraintHolds(c) ==
    /\ (c.constraint_type = "start_after" /\ IsOptimized(c.task_id)) =>
          OptimizedEntry(c.task_id).optimized_start >= c.date
    /\ (c.constraint_type = "finish_before" /\ IsOptimized(c.task_id)) =>
          OptimizedEntry(c.task_id).optimized_end <= c.date
    /\ (c.constraint_type = "max_duration" /\ IsOptimized(c.task_id)) =>
          OptimizedEntry(c.task_id).optimized_end
              - OptimizedEntry(c.task_id).optimized_start <= c.max_days
    /\ c.constraint_type = "resource_limit" =>
          \A day \in ScheduledDays : DemandOn(c.resource_type, day) <= c.max_units

\* C8: in every solution an optimizer returns, every dependency row has
\* successor start >= predecessor end + lag, every constraint passed in holds,
\* and on every day the demand on a resource type is within its capacity.
C8_SolutionSatisfiesConstraints ==
    SolutionReturned =>
        /\ \A k \in 1..Len(deps) :
              (IsOptimized(deps[k].predecessor_id) /\ IsOptimized(deps[k].successor_id)) =>
                  OptimizedEntry(deps[k].successor_id).optimized_start >=
                      OptimizedEntry(deps[k].predecessor_id).optimized_end + deps[k].lag_days
        /\ opt.kind = "optimization" =>
              \A k \in 1..Len(opt.request.constraints) :
                  ConstraintHolds(opt.request.constraints[k])
        /\ opt.kind = "leveling" =>
              \A kv \in opt.request.resource_constraints :
                  \A day \in ScheduledDays : DemandOn(kv[1], day) <= kv[2]

\* The dates of the schedule of the CPM engine for the tasks.
CpmDates(library_ok) ==
    LET r == calculate_critical_path_ortools(tasks, deps, today, library_ok)
    IN [i \in 1..Len(r.task_schedules) |->
           <<r.task_schedules[i].task_id, r.task_schedules[i].earliest_start,
             r.task_schedules[i].earliest_finish>>]

OptimizedDates ==
    [i \in 1..Len(OptimizedOf(opt)) |->
        <<OptimizedOf(opt)[i].task_id, OptimizedOf(opt)[i].optimized_start,
          OptimizedOf(opt)[i].optimized_end>>]

\* C9: an optimizer call that finds no solution returns, with
\* solution_found = false, the schedule of the CPM engine for the tasks,
\* tagged approximate.
C9_NoSolutionFallsBackToCpm ==
    (NoSolutionReturned /\ tasks # <<>>) =>
        /\ "approximate" \in DOMAIN opt
        /\ OptimizedOf(opt) # <<>>
        /\ \E library_ok \in BOOLEAN : OptimizedDates = CpmDates(library_ok)

\* C10: a call in flight on a shared AdvancedSchedulingService has used no
\* solver but the one it created.
C10_OwnSolverOnly ==
    \A c \in CallIds : calls[c].pc # "idle" => calls[c].used \subseteq {calls[c].own}

(***************************************************************************)
(* The conflict service.                                                   *)
(***************************************************************************)
\* The last resolve_conflicts call ran under auto with a session.
ResolvedAuto ==
    /\ resolution.kind = "resolution"
    /\ resolution.request.resolution_strategy = "auto"
    /\ resolution.request.db_session

\* C11: after resolve_conflicts(conflicts, auto), a second call with the same
\* conflict set resolves nothing (conflicts_resolved = 0) and changes no task
\* field.
C11_SecondResolveChangesNothing ==
    [][(/\ ResolvedAuto
        /\ resolution.request.conflicts = conflicts
        /\ ResolveConflicts("auto", TRUE))
       => (resolution'.conflicts_resolved = 0 /\ tasks' = tasks)]_vars

\* conflicts is what detect_project_conflicts returns for the rows as they are.
Detected == tasks # <<>> /\ conflicts = detect_project_conflicts(tasks)

ConflictsOfType(type) ==
    {i \in 1..Len(conflicts) : conflicts[i].conflict_type = type}

\* Two dated tasks of one assignee whose windows share more than a boundary day.
WindowsOverlap(a, b) ==
    /\ a.assigned_to # NoUser /\ a.assigned_to = b.assigned_to
    /\ HasPlannedDates(a) /\ HasPlannedDates(b)
    /\ a.planned_start_date < b.planned_end_date
    /\ b.planned_start_date < a.planned_end_date

\* The rows are A 2024-01-01 -> 2024-01-10 and B 2024-01-05 -> 2024-01-15 of
\* one assignee.
Scenario2 ==
    /\ Len(tasks) = 2
    /\ tasks[1].assigned_to = tasks[2].assigned_to /\ tasks[1].assigned_to # NoUser
    /\ tasks[1].planned_start_date = Jan(1) /\ tasks[1].planned_end_date = Jan(10)
    /\ tasks[2].planned_start_date = Jan(5) /\ tasks[2].planned_end_date = Jan(15)

\* C12: detection reports a resource_overlap for every pair of tasks of one
\* assignee with overlapping windows, adjacent in start order or not, medium
\* when the overlap is at most 3 days and high otherwise; for A 01-01 -> 01-10
\* and B 01-05 -> 01-15 it reports exactly one, of 5 days, high.
C12_EveryOverlappingPairReported ==
    Detected =>
        /\ \A i \in 1..Len(tasks), j \in 1..Len(tasks) :
              (i < j /\ WindowsOverlap(tasks[i], tasks[j])) =>
                 \E k \in ConflictsOfType("resource_overlap") :
                    Range(conflicts[k].task_ids) = {tasks[i].id, tasks[j].id}
        /\ \A k \in ConflictsOfType("resource_overlap") :
              conflicts[k].severity =
                  IF conflicts[k].description <= 3 THEN "medium" ELSE "high"
        /\ Scenario2 =>
              \E k \in ConflictsOfType("resource_overlap") :
                 /\ ConflictsOfType("resource_overlap") = {k}
                 /\ conflicts[k].description = 5
                 /\ conflicts[k].severity = "high"

\* The conflict the running call is about to resolve, and its two tasks
\* before and after the step.
CurrentConflict == txn.todo[txn.i]

\* The step resolved a conflict of the two-task kinds between distinct tasks.
DelayedByStep ==
    /\ ResolveNextConflict
    /\ CurrentConflict.conflict_type \in {"resource_overlap", "dependency_violation"}
    /\ Len(txn'.applied) = Len(txn.applied) + 1
    /\ CurrentConflict.task_ids[1] # CurrentConflict.task_ids[2]

\* C13: auto-resolving a resource_overlap or dependency_violation between A
\* and B moves B's planned start to the day after A's planned end (overlap + 1
\* days) and B's planned end by the same number of days; B's duration and
\* every other row stay as they are, and A no longer ends after B starts. For
\* A -> 2024-01-10 and B 2024-01-05 -> 2024-01-15, B becomes 01-11 -> 01-21.
C13_LaterTaskMovedPastEarlier ==
    [][DelayedByStep =>
          LET A == TaskById(tasks, CurrentConflict.task_ids[1])
              B == TaskById(tasks, CurrentConflict.task_ids[2])
              A2 == TaskById(tasks', CurrentConflict.task_ids[1])
              B2 == TaskById(tasks', CurrentConflict.task_ids[2])
              overlap == A.planned_end_date - B.planned_start_date
          IN /\ overlap >= 0
             /\ B2.planned_start_date = A.planned_end_date + 1
             /\ B2.planned_start_date = B.planned_start_date + overlap + 1
             /\ B.planned_end_date # NoDate =>
                   B2.planned_end_date = B.planned_end_date + overlap + 1
             /\ B2.planned_duration_days = B.planned_duration_days
             /\ B2.planned_end_date - B2.planned_start_date
                   = B.planned_end_date - B.planned_start_date
             /\ \A i \in 1..Len(tasks) : tasks[i].id # B.id => tasks'[i] = tasks[i]
             /\ A2.planned_end_date < B2.planned_start_date
             /\ (/\ A.planned_end_date = Jan(10)
                 /\ B.planned_start_date = Jan(5) /\ B.planned_end_date = Jan(15))
                => (B2.planned_start_date = Jan(11) /\ B2.planned_end_date = Jan(21))]_vars

\* One call has delayed a task for an overlap, 01-05 -> 01-15 to 01-11 -> 01-21,
\* and a successor for a dependency violation.
C13_Witness ==
    /\ txn.pc = "running"
    /\ \E k \in 1..Len(txn.applied) :
          /\ txn.applied[k].resolution_type = "delay_task"
          /\ txn.applied[k].changes.delay_days = 6
          /\ txn.applied[k].changes.planned_start_date = Jan(11)
          /\ txn.applied[k].changes.planned_end_date = Jan(21)
    /\ \E k \in 1..Len(txn.applied) : txn.applied[k].resolution_type = "delay_successor"

\* Every conflict of cs, in order, is either the next unresolved conflict or
\* the conflict the next applied resolution was made for.
RECURSIVE AccountedOnce(_, _, _)
AccountedOnce(cs, applied, unresolved) ==
    IF cs = <<>> THEN applied = <<>> /\ unresolved = <<>>
    ELSE \/ /\ unresolved # <<>>
            /\ Head(unresolved) = Head(cs)
            /\ AccountedOnce(Tail(cs), applied, Tail(unresolved))
         \/ /\ applied # <<>>
            /\ Head(applied).conflict_type = Head(cs).conflict_type
            /\ Head(cs).task_ids # <<>>
            /\ Head(applied).affected_tasks
                  = <<Head(cs).task_ids[Len(Head(cs).task_ids)]>>
            /\ AccountedOnce(Tail(cs), Tail(applied), unresolved)

UnsupportedTypes == {"resource_overallocation", "project_deadline_violation"}

\* C14: resolve_conflicts returns a result (it never raises) in which every
\* input conflict is accounted for exactly once, as an applied resolution or
\* as an unresolved conflict: conflicts_resolved + |unresolved_conflicts| =
\* conflicts_detected; conflicts of an unsupported type, and all conflicts
\* under a strategy other than auto, are in unresolved_conflicts.
C14_EveryConflictAccounted ==
    /\ resolution.kind \in {"none", "resolution"}
    /\ resolution.kind = "resolution" =>
          LET cs == resolution.request.conflicts
              unresolved == resolution.unresolved_conflicts
          IN /\ resolution.conflicts_detected = Len(cs)
             /\ resolution.conflicts_resolved = Len(resolution.applied_resolutions)
             /\ resolution.conflicts_resolved + Len(unresolved)
                   = resolution.conflicts_detected
             /\ AccountedOnce(cs, resolution.applied_resolutions, unresolved)
             /\ \A i \in 1..Len(cs) :
                   cs[i].conflict_type \in UnsupportedTypes =>
                      \E k \in 1..Len(unresolved) : unresolved[k] = cs[i]
             /\ resolution.request.resolution_strategy # "auto" =>
                   (unresolved = cs /\ resolution.conflicts_resolved = 0)

\* An auto call has applied a resolution and returned a conflict of an
\* unsupported type unresolved.
C14_Witness ==
    /\ ResolvedAuto
    /\ resolution.conflicts_resolved > 0
    /\ \E k \in 1..Len(resolution.unresolved_conflicts) :
          resolution.unresolved_conflicts[k].conflict_type \in UnsupportedTypes

\* C15: the task updates of one resolve_conflicts call are all-or-nothing:
\* when the call has stopped part-way through its conflict list, the rows are
\* the rows as they were before the call, no update of an earlier conflict of
\* that call remains committed.
C15_StoppedCallLeavesNoUpdate ==
    txn.pc = "stopped" => tasks = txn.before

\* C16: detection reports a dependency_violation, severity high, for a
\* predecessor/successor pair exactly when the predecessor's planned end plus
\* the lag of the dependency (lag_days of the successor row) is later than the
\* successor's planned start.
C16_DependencyViolationCountsLag ==
    Detected =>
        \A i \in 1..Len(tasks) :
           \A k \in 1..Len(tasks[i].predecessor_tasks) :
              LET succ == tasks[i]
                  pred == TaskById(tasks, succ.predecessor_tasks[k])
              IN (pred.planned_end_date # NoDate /\ succ.planned_start_date # NoDate) =>
                    ((\E c \in ConflictsOfType("dependency_violation") :
                         /\ conflicts[c].task_ids = <<pred.id, succ.id>>
                         /\ conflicts[c].severity = "high")
                     <=> pred.planned_end_date + succ.lag_days > succ.planned_start_date)

\* The smallest whole number of days d with estimated_hours / d <= 8.
MinimumDays(estimated_hours) ==
    CHOOSE d \in 1..estimated_hours :
       /\ estimated_hours <= d * 8
       /\ \A e \in 1..(d - 1) : estimated_hours > e * 8

\* The step resolved a capacity_violation.
ExtendedByStep ==
    /\ ResolveNextConflict
    /\ CurrentConflict.conflict_type = "capacity_violation"
    /\ Len(txn'.applied) = Len(txn.applied) + 1

\* C17: auto-resolving a capacity_violation sets the planned duration of the
\* task to the smallest whole number of days d with estimated_hours / d <= 8,
\* exact multiples of 8 included, and afterwards the task has no
\* capacity_violation.
C17_DurationIsMinimumDays ==
    [][ExtendedByStep =>
          LET task == TaskById(tasks', CurrentConflict.task_ids[1])
          IN /\ task.planned_duration_days = MinimumDays(task.estimated_hours)
             /\ \A k \in 1..Len(detect_capacity_conflicts(tasks')) :
                   detect_capacity_conflicts(tasks')[k].task_ids # <<task.id>>]_vars

(***************************************************************************)
(* The baseline service.                                                   *)
(***************************************************************************)
\* A create call returned this version with a snapshot of the task.
Snapshotted(task_id, baseline_version) ==
    \E k \in 1..Len(baselines) :
       /\ baselines[k].baseline_version = baseline_version
       /\ \E i \in 1..Len(baselines[k].task_baselines) :
             baselines[k].task_baselines[i].task_id = task_id

SnapshotOf(task_id, baseline_version) ==
    LET k == CHOOSE k \in 1..Len(baselines) :
                baselines[k].baseline_version = baseline_version
        i == CHOOSE i \in 1..Len(baselines[k].task_baselines) :
                baselines[k].task_baselines[i].task_id = task_id
    IN baselines[k].task_baselines[i]

\* C18: comparing a task to a version under which create_baseline snapshotted
\* it returns a diff, not a not-found error; when the budgeted cost went from
\* 1000 to 1500 in between, the diff has budgeted_cost with old 1000, new 1500,
\* change_type cost_change, and the overall severity is critical.
C18_CompareFindsSnapshot ==
    (/\ comparison.kind \in {"comparison", "exc"}
     /\ Snapshotted(comparison.task_id, comparison.baseline_version))
    => /\ comparison.kind = "comparison"
       /\ (/\ SnapshotOf(comparison.task_id, comparison.baseline_version).budgeted_cost = 1000
           /\ TaskById(tasks, comparison.task_id).budgeted_cost = 1500)
          => /\ \E c \in 1..Len(comparison.changes) :
                   /\ comparison.changes[c].field = "budgeted_cost"
                   /\ comparison.changes[c].old_value = 1000
                   /\ comparison.changes[c].new_value = 1500
                   /\ comparison.changes[c].change_type = "cost_change"
             /\ comparison.severity = "critical"

\* C19: every baseline created for the project has a version that differs from
\* and is greater than the versions of all baselines created before it, also
\* when two are created within one clock second.
C19_VersionsStrictlyIncrease ==
    \A i \in 1..Len(baselines), j \in 1..Len(baselines) :
       i < j => baselines[i].baseline_version < baselines[j].baseline_version

\* The score the specification gives a changed field.
ListedScore(field_name, old_value, new_value) ==
    IF field_name \in {"budgeted_cost", "estimated_hours"}
    THEN IF Abs(new_value - old_value) * 100 > 50 * Abs(old_value) THEN 5
         ELSE IF Abs(new_value - old_value) * 100 > 25 * Abs(old_value) THEN 4
         ELSE IF Abs(new_value - old_value) * 100 > 10 * Abs(old_value) THEN 3
         ELSE 1
    ELSE IF field_name \in {"planned_start_date", "planned_end_date"} THEN 4
    ELSE IF field_name = "predecessor_tasks" THEN 3
    ELSE IF field_name \in {"name", "description"} THEN 2
    ELSE 1

\* The ids of a predecessor list, whatever their type.
IdsOf(predecessor_tasks) == {predecessor_tasks[k][2] : k \in 1..Len(predecessor_tasks)}

\* The scores of the fields in which the task differs from the snapshot.
ListedScores(task, baseline) ==
    LET changed == SelectRows(fields_to_compare,
                       [f \in Range(fields_to_compare) |-> task[f] # baseline[f]])
        field_scores == [k \in 1..Len(changed) |->
                            ListedScore(changed[k], baseline[changed[k]], task[changed[k]])]
    IN IF IdsOf(task.predecessor_tasks) # IdsOf(baseline.predecessor_tasks)
       THEN Append(field_scores, 3)
       ELSE field_scores

\* C20: the comparison scores every changed field as listed (cost and hours by
\* percentage: > 50 is 5, > 25 is 4, > 10 is 3; start and end date 4; the set
\* of predecessors 3; name and other free text 2; anything else 1) and reports
\* the label of the largest score, none when no field changed.
C20_SeverityIsLabelOfListedMaximum ==
    comparison.kind = "comparison" =>
        comparison.severity
            = overall_severity(ListedScores(comparison.task, comparison.baseline))

\* C21: restoring a task from a version under which create_baseline
\* snapshotted it changes only the fields named (all trackable fields when
\* none is named), sets each of them to its snapshot value, and returns one
\* old/new entry for each field whose value changed; every other field keeps
\* its value.
C21_RestoreWritesRequestedFields ==
    (/\ restored.kind \in {"restore", "exc"}
     /\ Snapshotted(restored.task_id, restored.baseline_version))
    => /\ restored.kind = "restore"
       /\ LET baseline == SnapshotOf(restored.task_id, restored.baseline_version)
              requested == (IF restored.fields = <<>> THEN Range(all_restorable_fields)
                            ELSE Range(restored.fields)) \cap DOMAIN baseline
          IN /\ \A f \in DOMAIN restored.task :
                   restored.task[f] = IF f \in requested THEN baseline[f]
                                      ELSE restored.before[f]
             /\ {restored.restored_fields[k].field :
                    k \in 1..Len(restored.restored_fields)}
                   = {f \in requested : restored.before[f] # baseline[f]}
             /\ \A k \in 1..Len(restored.restored_fields) :
                   LET entry == restored.restored_fields[k]
                   IN /\ entry.old_value = restored.before[entry.field]
                      /\ entry.new_value = baseline[entry.field]

(***************************************************************************)
(* The earned-value service.                                               *)
(***************************************************************************)
\* The Decimal x is the quotient n / d.
IsQuotient(x, n, d) == x.n * d = n * x.d

\* C22: the metrics calculate_evm returns have CPI = EV/AC when AC > 0 and 0
\* otherwise, PercentComplete = EV/BAC x 100 when BAC > 0 and 0 otherwise, and
\* EAC = AC whenever EV >= BAC.
C22_EvmIdentities ==
    evm.kind = "evm" =>
       LET m == evm.metrics
       IN /\ IF m.actual_cost > 0
             THEN IsQuotient(m.cost_performance_index, m.earned_value, m.actual_cost)
             ELSE IsQuotient(m.cost_performance_index, 0, 1)
          /\ IF m.budget_at_completion > 0
             THEN IsQuotient(m.percent_complete, m.earned_value * 100,
                             m.budget_at_completion)
             ELSE IsQuotient(m.percent_complete, 0, 1)
          /\ m.earned_value >= m.budget_at_completion
                => m.estimate_at_completion = m.actual_cost

\* C23: the metrics calculate_evm returns have TCPI = (BAC - EV)/(EAC - EV)
\* whenever EAC - EV > 0, and TCPI = 0 whenever EAC - EV <= 0.
C23_TcpiIsRemainingWorkOverRemainingCost ==
    evm.kind = "evm" =>
       LET m == evm.metrics
       IN IF m.estimate_at_completion - m.earned_value > 0
          THEN IsQuotient(m.to_complete_performance_index,
                          m.budget_at_completion - m.earned_value,
                          m.estimate_at_completion - m.earned_value)
          ELSE IsQuotient(m.to_complete_performance_index, 0, 1)

\* C24: for every EVMMetrics calculate_evm produces (BAC = 0, PV = 0, AC = 0
\* and EV = 0 included), analyze_evm and predict_evm return a result and raise
\* nothing.
C24_AnalysisAndPredictionNeverRaise ==
    evm.kind = "evm" => /\ evm.analysis.kind # "exc"
                        /\ evm.prediction.kind # "exc"

(***************************************************************************)
(* The validator: malformed edges, reported cycles.                        *)
(***************************************************************************)
\* The result lists dependency row d with the issue among the invalid edges.
ListedInvalid(d, issue) ==
    \E k \in 1..Len(validation.invalid_dependencies) :
       /\ validation.invalid_dependencies[k].predecessor_id = d.predecessor_id
       /\ validation.invalid_dependencies[k].successor_id = d.successor_id
       /\ validation.invalid_dependencies[k].issue = issue

\* Two rows of the dependency table name the same (predecessor, successor).
HasDuplicatePair(ds) ==
    \E i \in 1..Len(ds), j \in 1..Len(ds) :
       /\ i < j
       /\ ds[i].predecessor_id = ds[j].predecessor_id
       /\ ds[i].successor_id = ds[j].successor_id

\* C25: for every edge whose predecessor or successor is not a task, and for
\* every edge from a task to itself, the validation is invalid and lists the
\* edge with its issue; duplicate pairs alone add a warning and leave the
\* result valid.
C25_MalformedEdgesListed ==
    Validated =>
       /\ \A k \in 1..Len(deps) :
             /\ deps[k].predecessor_id \notin TaskIdsOf(tasks)
                   => /\ validation.is_valid = FALSE
                      /\ ListedInvalid(deps[k], "predecessor_task_not_found")
             /\ deps[k].successor_id \notin TaskIdsOf(tasks)
                   => /\ validation.is_valid = FALSE
                      /\ ListedInvalid(deps[k], "successor_task_not_found")
             /\ deps[k].predecessor_id = deps[k].successor_id
                   => /\ validation.is_valid = FALSE
                      /\ ListedInvalid(deps[k], "self_dependency")
       /\ (WellFormedGraph(tasks, deps) /\ HasDuplicatePair(deps))
             => /\ validation.is_valid = TRUE
                /\ \E k \in 1..Len(validation.warnings) :
                      validation.warnings[k].msg = "duplicate_dependency"

\* C28: every cycle a validation reports, for the project or for one task, is
\* an ordered list of task ids closing the loop: its first and last id are
\* equal and every consecutive pair of ids is an edge of the dependency graph.
C28_ReportedCyclesCloseTheLoop ==
    validation.kind \in {"validation", "task_validation"} =>
       \A i \in 1..Len(validation.circular_references) :
          IsCycleOf(validation.circular_references[i], EdgesOf(deps))

\* C29: validating a finite task/edge set, cyclic or not, ends with a result
\* after visiting each node a bounded number of times: neither the cycle
\* detection nor the longest-path estimate of the graph builder recurses
\* without bound, so no validation ends on the interpreter's recursion limit.
C29_NoUnboundedRecursion ==
    Validated =>
       \A k \in 1..Len(validation.errors) :
          validation.errors[k] # Msg("validation_failed", <<"RecursionError">>)

(***************************************************************************)
(* The frame of one resolution.                                            *)
(***************************************************************************)
\* The columns a delay may write.
DateColumns == {"planned_start_date", "planned_end_date"}

CpmColumns == {"is_critical_path", "slack_days"}

\* C27: calculate_critical_path on tasks of which one has no planned start or
\* end date returns a schedule, with today as the earliest start of a task
\* that has no planned start and no predecessor, and the run writes to the
\* rows only is_critical_path and slack_days: no planned start, planned end
\* or planned duration is set or changed.
C27_MissingDatesDefaultToToday ==
    [][(/\ \E library_ok \in BOOLEAN : CalculateCriticalPath(library_ok)
        /\ \E i \in 1..Len(tasks) : ~HasPlannedDates(tasks[i]))
       => /\ cpm'.exc = ""
          /\ Len(cpm'.task_schedules) = Len(tasks)
          /\ \A i \in 1..Len(tasks) :
                (/\ tasks[i].planned_start_date = NoDate
                 /\ PredecessorsOf(tasks, deps, tasks[i].id) = <<>>)
                => cpm'.task_schedules[i].earliest_start = today
          /\ Len(tasks') = Len(tasks)
          /\ \A i \in 1..Len(tasks) :
                \A f \in (DOMAIN tasks[i]) \ CpmColumns : tasks'[i][f] = tasks[i][f]]_vars

(***************************************************************************)
(* Progress updates.                                                       *)
(***************************************************************************)
\* C30: from tasks in status not_started without actual dates, after any
\* sequence of update_task_progress calls with the parent roll-up they
\* trigger, every task in status completed has an actual end date and every
\* task in status in_progress has an actual start date.
C30_StatusHasItsActualDate ==
    \A i \in 1..Len(tasks) :
       /\ tasks[i].status = "completed" => tasks[i].actual_end_date # NoDate
       /\ tasks[i].status = "in_progress" => tasks[i].actual_start_date # NoDate

====
